---- MODULE Spec2Model ----
(***************************************************************************)
(* Model of the asynchronous callback correlation layer of the bot:       *)
(* CallbackManager (src/webhook_server.py), its periodic sweep            *)
(* (src/main.py) and the two callers built on it (src/post_system.py).    *)
(*                                                                         *)
(* Time is counted in poll intervals (the 0.5 s of asyncio.sleep in        *)
(* wait_for_callback) and every stored time is kept relative to the       *)
(* present: 0 is now, -k is k poll intervals ago, +k is k intervals       *)
(* ahead.  Tick shifts every stored time by one; a time older than the    *)
(* sweep age stays at -(CleanupAge + 1), which no comparison of the code  *)
(* tells from an older one, and the timestamp of a result, which no code  *)
(* reads, stays at -1.  The other durations of the code are scaled        *)
(* to small numbers that keep their order:                                 *)
(*   poll 0.5 s <= POST timeout 30 s < waiter timeout 180 s < sweep 5 min,*)
(* and POST timeout + waiter timeout <= sweep age, as 30+180 <= 300.       *)
(* A sleep lasts exactly one poll interval and the code between two       *)
(* awaits takes no time; the steps of one event-loop task between two     *)
(* awaits are one action.                                                  *)
(*                                                                         *)
(* The second part models the conversation state machine of TelegramBot   *)
(* (src/bot.py) for one user: the row of the users table (state, niche),  *)
(* the proposal and the content held in context.user_data, and one action *)
(* per update handler, each with the failures its awaits can raise and    *)
(* the rollback of its except block.  Updates of one user are handled one *)
(* after the other, so a handler is one action.  RollbackSpec applies     *)
(* rollback_to_previous_state to every state a row can hold.              *)
(*                                                                         *)
(* The third part models one call of RetryHelper.retry_async_operation    *)
(* (src/utils.py), the wrapper of every database call of the bot, with an *)
(* operation that returns or raises as it likes (RetrySpec).              *)
(***************************************************************************)
EXTENDS Integers, Sequences, FiniteSets, TLC

\* ---- bounds of the model ----
MaxRequests == 1     \* requests sent under Spec (every shape of callback body)
MaxConcurrent == 2   \* requests sent under ConcurrentSpec (several in flight)
MaxWaits == 2        \* calls of wait_for_callback
MaxWords == 3        \* words of an answer to the post question
MaxOtherUsers == 2   \* rows of the users table that belong to other users
MaxUpdates == 3      \* updates that pass through subscription_required
MaxCallers == 2      \* users that call the rate limiter

\* ---- durations of the code, in poll intervals (scaled) ----
PollInterval == 1    \* asyncio.sleep(0.5)
PostTimeout == 1     \* session.post(..., timeout=30)
DefaultTimeout == 2  \* wait_for_callback(..., timeout=180)
CleanupAge == 3      \* timedelta(minutes=5)

\* the weekly limit of posts (10 in config.py), scaled
WEEKLY_POST_LIMIT == 2

\* the limit of user records (1000 by default in config.py), scaled
MAX_USERS == 2

\* global_rate_limiter = RateLimiter(max_calls=30, time_window=60), scaled;
\* time_window is in the unit of LimiterTick
max_calls == 2
time_window == 2

\* the users of the rate limiter
LimiterUsers == 1..MaxCallers

\* the defaults of retry_async_operation
MAX_RETRIES == 3
RETRY_DELAY == 1

\* the timeouts passed to wait_for_callback
Timeouts == {1, DefaultTimeout}

\* request ids: those generated, and in Spec one more that is never issued
Ids == 1..MaxConcurrent
WaitIds == 1..MaxWaits

\* the callback routes, and the callback_type values the callers register
\* (adapt_topic_for_niche "topic", generate_post_content "post")
Kinds == {"niche", "topic", "post"}
RequestKinds == {"topic", "post"}

\* the key of the result dict each callback route fills
FieldOf(route) ==
    CASE route = "niche" -> "niche"
      [] route = "topic" -> "adapted_topic"
      [] OTHER -> "generated_post"

\* ---- strings are sequences of characters; str.strip() ----
RECURSIVE LStrip(_)
LStrip(s) == IF s # <<>> /\ Head(s) = " " THEN LStrip(Tail(s)) ELSE s

RECURSIVE RStrip(_)
RStrip(s) == IF s # <<>> /\ s[Len(s)] = " " THEN RStrip(SubSeq(s, 1, Len(s) - 1)) ELSE s

Strip(s) == RStrip(LStrip(s))

\* payload strings the external engine may send
Payloads == {<<" ", "a", " ">>}

\* ---- inbound callback bodies ----
\* json = FALSE: request.json() raises, or the JSON value is not an object.
\* rid: the value of data.get('request_id'); payload: the value of
\* data.get(<field of the route>), seen from the route that receives it.
RidNone == [t |-> "none", v |-> 0]
RidOf(r) == [t |-> "id", v |-> r]
RidValues == {RidNone} \cup {RidOf(r) : r \in Ids}

PayloadMissing == [t |-> "missing", s |-> <<>>]
PayloadNonString == [t |-> "nonstring", s |-> <<>>]
PayloadStr(s) == [t |-> "str", s |-> s]
PayloadValues == {PayloadMissing, PayloadNonString} \cup {PayloadStr(s) : s \in Payloads}

BadJson == [json |-> FALSE, rid |-> RidNone, payload |-> PayloadMissing]
Bodies == {BadJson} \cup
          {[json |-> TRUE, rid |-> r, payload |-> p] : r \in RidValues, p \in PayloadValues}

\* ---- values returned by wait_for_callback ----
\* a result dict {"success": True, <field>: <value>, "timestamp": ...}, or None
NoResult == [t |-> "pending", field |-> "", value |-> <<>>, success |-> FALSE, timestamp |-> 0]
ResultNone == [t |-> "None", field |-> "", value |-> <<>>, success |-> FALSE, timestamp |-> 0]
ResultDict(field, value, ts) ==
    [t |-> "dict", field |-> field, value |-> value, success |-> TRUE, timestamp |-> ts]

VARIABLES
    pending_requests,   \* CallbackManager.pending_requests: id -> entry
    callback_handlers,  \* CallbackManager.callback_handlers: id -> result
    next_id,            \* number of ids generate_request_id has produced
    req,                \* per id: the send_async_request call that made it
    wait,               \* per call of wait_for_callback: its position
    accepted,           \* per id: the payloads of the callbacks answered with HTTP 200
    last_call           \* the last callback POST and its response

\* ---- the bot: one user's row of the users table and chat session ----
VARIABLES
    user_state,         \* users.state of the user's row, "none" without a row
    user_niche,         \* users.niche of the row, "none" when empty
    temp_niche,         \* context.user_data['temp_niche'], "none" when absent
    current_content,    \* whether context.user_data holds 'current_content'
    change_requested,   \* change_niche was pressed and no confirmation has completed since
    weekly_posts_count, \* users.weekly_posts_count of the row
    last_turn           \* the last handler turn: what ran and what it showed

\* ---- one call of retry_async_operation ----
VARIABLES
    retry               \* the call's arguments, locals and position

\* ---- the rest of the users table ----
VARIABLES
    other_users         \* number of rows of the users table of other users

\* ---- one update on its way through subscription_required ----
VARIABLES
    wrapper             \* the wrapped handler, what each await came to, the position

\* ---- RateLimiter ----
VARIABLES
    limiter             \* self.calls, and what is_allowed answered so far

bot_vars == <<user_state, user_niche, temp_niche, current_content,
              change_requested, weekly_posts_count, last_turn>>

callback_vars == <<pending_requests, callback_handlers, next_id, req, wait,
                   accepted, last_call>>

vars == <<pending_requests, callback_handlers, next_id, req, wait,
          accepted, last_call, user_state, user_niche, temp_niche,
          current_content, change_requested, weekly_posts_count, last_turn,
          retry, other_users, wrapper, limiter>>

\* time.time() / datetime.now(), and a stored time one poll interval later
now == 0
Oldest == 0 - (CleanupAge + 1)
Earlier == 0 - 1
Shift(t, floor) == IF t - 1 < floor THEN floor ELSE t - 1

\* ---- dict helpers ----
DictSet(d, k, v) == [x \in DOMAIN d \cup {k} |-> IF x = k THEN v ELSE d[x]]
DictPop(d, k) == [x \in DOMAIN d \ {k} |-> d[x]]
EmptyDict == [x \in {} |-> 0]

NoReq == [pc |-> "unused", kind |-> "none", outcome |-> "none"]
\* a call of wait_for_callback: its arguments, its local start_time, the end
\* of its current sleep, and once it has returned its result (timeout, start
\* and wake are dead by then and reset)
NoWait == [pc |-> "idle", rid |-> 0, timeout |-> 0, start |-> 0, wake |-> 0,
           result |-> NoResult]

\* the shape of a body, as far as the handlers tell bodies apart
ShapeOf(body) ==
    IF ~body.json THEN "badjson"
    ELSE IF body.payload.t = "nonstring" THEN "nonstring"
    ELSE "readable"

NoCall == [rid |-> RidNone, shape |-> "none", status |-> 0, body_status |-> "none"]

\* the limit check did not read the weekly counter
NotRead == 0 - 1

\* no handler has run yet
NoTurn == [op |-> "none", outcome |-> "none", rollback |-> "none", prompt |-> "none",
           dispatches |-> 0, alerts |-> 0, limit_read |-> NotRead, engine |-> "none",
           saved |-> FALSE, inserted |-> 0, incremented |-> 0]

\* the callback manager after construction
CallbackInit ==
    /\ pending_requests = EmptyDict
    /\ callback_handlers = EmptyDict
    /\ next_id = 0
    /\ req = [r \in Ids |-> NoReq]
    /\ wait = [w \in WaitIds |-> NoWait]
    /\ accepted = [r \in Ids |-> {}]
    /\ last_call = NoCall

\* the bot before the user's first message: no row, an empty session
BotInit ==
    /\ user_state = "none"
    /\ user_niche = "none"
    /\ temp_niche = "none"
    /\ current_content = FALSE
    /\ change_requested = FALSE
    /\ weekly_posts_count = 0
    /\ last_turn = NoTurn

\* no update in subscription_required
NoWrapper ==
    [pc |-> "idle", update_id |-> 0, handler |-> "none", access |-> "none",
     denied_message |-> "none", runs |-> <<>>, result |-> "none"]

\* RateLimiter.__init__: no calls; nothing answered yet
NoAnswer == [user_id |-> 0, allowed |-> TRUE]

\* RateLimiter.__init__: self.calls = {}; calls maps a user id to the ages of
\* the recorded calls (current_time - call_time, oldest first).  admitted and
\* last are history: the ages of the calls is_allowed admitted, and the call
\* answered at this instant
NoLimiter ==
    [calls |-> <<>>, admitted |-> [user_id \in LimiterUsers |-> <<>>], last |-> NoAnswer]

\* no call of retry_async_operation
NoRetry ==
    [pc |-> "idle", max_retries |-> 0, delay_arg |-> 0, attempt |-> 0, delay |-> 0,
     last_exception |-> "None", outcomes |-> <<>>, slept |-> <<>>, result |-> "None"]

\* the variables outside the callback manager and the conversation, at rest
RestInit ==
    /\ retry = NoRetry
    /\ other_users = 0
    /\ wrapper = NoWrapper
    /\ limiter = NoLimiter

Init == CallbackInit /\ BotInit /\ RestInit

\* ---- send_async_request ----
\* the entry stored for a new request id
NewEntry(kind, t) == [timestamp |-> t, callback_type |-> kind, status |-> "pending"]

\* (mutant) nothing is registered before the outbound POST
RegisterRequestLater(pending, r, kind) == pending

\* self.pending_requests[request_id] = {...}, ahead of the outbound POST
RegisterRequest(pending, r, kind) == DictSet(pending, r, NewEntry(kind, now))

\* up to the first await: the id is generated and the entry registered,
\* then the outbound POST is started.  uuid4 ids are fresh: the next integer.
send_async_request_begin(kind, limit) ==
    /\ next_id < limit
    /\ LET r == next_id + 1 IN
        /\ next_id' = r
        /\ pending_requests' = RegisterRequest(pending_requests, r, kind)
        /\ req' = [req EXCEPT ![r] = [pc |-> "posting", kind |-> kind, outcome |-> "none"]]
    /\ UNCHANGED <<callback_handlers, wait, accepted, last_call>>
    /\ UNCHANGED <<bot_vars, retry, other_users, wrapper, limiter>>

\* the outcomes of the outbound POST: status 200, another status, an exception
PostOutcomes == {"200", "non200", "raise"}

\* the entry after the POST: marked failed unless the engine answered 200
StatusAfterPost(entry, outcome) ==
    IF outcome = "200" THEN entry ELSE [entry EXCEPT !.status = "failed"]

\* what the model remembers of the outcome of the POST
OutcomeClass(outcome) == IF outcome = "200" THEN "accepted" ELSE "failed"

\* the POST ends (within PostTimeout, see Tick) and the id is returned
send_async_request_end(r, outcome) ==
    /\ req[r].pc = "posting"
    /\ r \in DOMAIN pending_requests
    /\ pending_requests' = [pending_requests EXCEPT ![r] = StatusAfterPost(@, outcome)]
    /\ req' = [req EXCEPT ![r].pc = "sent", ![r].outcome = OutcomeClass(outcome)]
    /\ UNCHANGED <<callback_handlers, next_id, wait, accepted, last_call>>
    /\ UNCHANGED <<bot_vars, retry, other_users, wrapper, limiter>>

\* ---- wait_for_callback ----
\* (mutant) the loop condition with <= for <
LoopContinuesInclusive(start, timeout, t) == t - start <= timeout

\* the loop condition: time.time() - start_time < timeout
LoopContinues(start, timeout, t) == t - start < timeout

\* the poll: request_id in self.callback_handlers
HasResult(handlers, r) == r \in DOMAIN handlers

\* (mutant) the pickup reads the result without popping it
HandlersKeptAtPickup(handlers, r) == handlers

\* the two pops of a pickup and the pop of the timeout path
HandlersAfterPickup(handlers, r) == DictPop(handlers, r)
PendingAfterPickup(pending, r) == DictPop(pending, r)
PendingAfterTimeout(pending, r) == DictPop(pending, r)

\* one pass of the loop for call w whose record is rec, up to the next await
\* (asyncio.sleep) or the return
WaitLoop(w, rec) ==
    IF LoopContinues(rec.start, rec.timeout, now)
    THEN IF HasResult(callback_handlers, rec.rid)
         THEN /\ callback_handlers' = HandlersAfterPickup(callback_handlers, rec.rid)
              /\ pending_requests' = PendingAfterPickup(pending_requests, rec.rid)
              /\ wait' = [wait EXCEPT ![w] = [rec EXCEPT !.pc = "returned",
                              !.result = callback_handlers[rec.rid],
                              !.timeout = 0, !.start = 0, !.wake = 0]]
         ELSE /\ wait' = [wait EXCEPT ![w] = [rec EXCEPT !.pc = "sleep",
                              !.wake = now + PollInterval]]
              /\ UNCHANGED <<callback_handlers, pending_requests>>
    ELSE /\ pending_requests' = PendingAfterTimeout(pending_requests, rec.rid)
         /\ wait' = [wait EXCEPT ![w] = [rec EXCEPT !.pc = "returned",
                              !.result = ResultNone,
                              !.timeout = 0, !.start = 0, !.wake = 0]]
         /\ UNCHANGED callback_handlers

\* number of calls of wait_for_callback made so far
StartedWaits == Cardinality({w \in WaitIds : wait[w].pc # "idle"})

\* the call, on an id send_async_request has returned: start_time is taken
\* and the first pass of the loop runs
wait_for_callback_begin(w, r, timeout) ==
    /\ w = StartedWaits + 1
    /\ w \in WaitIds
    /\ req[r].pc \in {"sent", "waiting"}
    /\ timeout \in Timeouts
    /\ req' = [req EXCEPT ![r].pc = "waiting"]
    /\ WaitLoop(w, [NoWait EXCEPT !.rid = r, !.timeout = timeout, !.start = now])
    /\ UNCHANGED <<next_id, accepted, last_call>>
    /\ UNCHANGED <<bot_vars, retry, other_users, wrapper, limiter>>

\* asyncio.sleep(0.5) ends and the next pass of the loop runs
wait_for_callback_poll(w) ==
    /\ wait[w].pc = "sleep"
    /\ wait[w].wake = now
    /\ WaitLoop(w, wait[w])
    /\ UNCHANGED <<next_id, req, accepted, last_call>>
    /\ UNCHANGED <<bot_vars, retry, other_users, wrapper, limiter>>

\* ---- the callback routes ----
\* (mutant) the check for a request_id only, not for a pending entry
IsLiveAnyId(rid, pending) == rid.t = "id"

\* request_id and request_id in self.pending_requests
IsLive(rid, pending) == rid.t = "id" /\ rid.v \in DOMAIN pending

\* (mutant) the result is stored under the id generated last
StoreResultUnderLastId(handlers, r, result) == DictSet(handlers, next_id, result)

\* self.callback_handlers[request_id] = {...}
StoreResult(handlers, r, result) == DictSet(handlers, r, result)

\* (mutant) an exception of the handler is answered with 400
HandlerStatusAlways400(body, pending) ==
    IF ~body.json THEN 400
    ELSE IF body.payload.t = "nonstring" THEN 400
    ELSE IF body.rid.t = "none" THEN 400
    ELSE IF IsLive(body.rid, pending) THEN 200
    ELSE 400

\* the HTTP status a handler answers with
HandlerStatus(body, pending) ==
    IF ~body.json THEN 500                        \* request.json() / data.get raises
    ELSE IF body.payload.t = "nonstring" THEN 500  \* .strip() raises
    ELSE IF body.rid.t = "none" THEN 400           \* falsy request_id
    ELSE IF IsLive(body.rid, pending) THEN 200
    ELSE 400

\* data.get(<field>, '').strip()
PayloadOf(body) == IF body.payload.t = "str" THEN Strip(body.payload.s) ELSE <<>>

\* the handler of one route, whole (it has no await after request.json())
handle_callback(route, body) ==
    /\ LET status == HandlerStatus(body, pending_requests) IN
        /\ last_call' = [rid |-> body.rid, shape |-> ShapeOf(body),
                          status |-> status,
                          body_status |-> IF status = 200 THEN "ok" ELSE "error"]
        /\ IF status = 200
           THEN /\ callback_handlers' = StoreResult(callback_handlers, body.rid.v,
                                            ResultDict(FieldOf(route), PayloadOf(body), now))
                /\ accepted' = [accepted EXCEPT ![body.rid.v] = @ \cup {PayloadOf(body)}]
           ELSE UNCHANGED <<callback_handlers, accepted>>
    /\ UNCHANGED <<pending_requests, next_id, req, wait>>
    /\ UNCHANGED <<bot_vars, retry, other_users, wrapper, limiter>>

handle_niche_callback(body) == handle_callback("niche", body)
handle_topic_callback(body) == handle_callback("topic", body)
handle_post_callback(body) == handle_callback("post", body)

\* ---- cleanup_old_requests, called once a second by start_webhook_server ----
\* (mutant) the comparison with the cutoff with <= for <
OldRequestsInclusive == {r \in DOMAIN pending_requests :
                    pending_requests[r].timestamp <= now - CleanupAge}

OldRequests == {r \in DOMAIN pending_requests :
                    pending_requests[r].timestamp < now - CleanupAge}

cleanup_old_requests ==
    /\ OldRequests # {}
    /\ pending_requests' = [r \in DOMAIN pending_requests \ OldRequests |-> pending_requests[r]]
    /\ callback_handlers' = [r \in DOMAIN callback_handlers \ OldRequests |-> callback_handlers[r]]
    /\ UNCHANGED <<next_id, req, wait, accepted, last_call>>
    /\ UNCHANGED <<bot_vars, retry, other_users, wrapper, limiter>>

\* ---- time ----
\* One poll interval passes.  Time does not pass the end of a sleep (the
\* waiter wakes first) nor the timeout of an outbound POST.
\* (mutant) a clock under which a sleeping waiter's start_time keeps pace with
\* the present, so that the elapsed time never grows
ShiftWaitNoElapse(rec) ==
    IF rec.pc = "sleep"
    THEN [rec EXCEPT !.wake = @ - 1]
    ELSE rec

ShiftWait(rec) ==
    IF rec.pc = "sleep"
    THEN [rec EXCEPT !.start = @ - 1, !.wake = @ - 1]
    ELSE rec

Tick ==
    /\ \A w \in WaitIds : wait[w].pc = "sleep" => wait[w].wake > now
    /\ \A r \in Ids : req[r].pc = "posting" =>
            (r \in DOMAIN pending_requests /\ now < pending_requests[r].timestamp + PostTimeout)
    /\ pending_requests' = [r \in DOMAIN pending_requests |->
                                [pending_requests[r] EXCEPT !.timestamp = Shift(@, Oldest)]]
    /\ callback_handlers' = [r \in DOMAIN callback_handlers |->
                                [callback_handlers[r] EXCEPT !.timestamp = Shift(@, Earlier)]]
    /\ wait' = [w \in WaitIds |-> ShiftWait(wait[w])]
    /\ UNCHANGED <<next_id, req, accepted, last_call>>
    /\ UNCHANGED <<bot_vars, retry, other_users, wrapper, limiter>>

\* ---- the specifications ----
\* Spec: one request, every shape of callback body on every route.
Next ==
    \/ \E k \in RequestKinds : send_async_request_begin(k, MaxRequests)
    \/ \E r \in Ids, o \in PostOutcomes : send_async_request_end(r, o)
    \/ \E w \in WaitIds, r \in Ids, t \in Timeouts : wait_for_callback_begin(w, r, t)
    \/ \E w \in WaitIds : wait_for_callback_poll(w)
    \/ \E b \in Bodies : handle_niche_callback(b)
    \/ \E b \in Bodies : handle_topic_callback(b)
    \/ \E b \in Bodies : handle_post_callback(b)
    \/ cleanup_old_requests
    \/ Tick

Spec == Init /\ [][Next]_vars

\* LiveSpec: Spec where time advances, a sleep that has ended is followed by
\* the next pass of the loop, and an outbound POST ends (aiohttp's own
\* timeout of 30 s at the latest).  Nothing is assumed of the callbacks.
LiveSpec ==
    /\ Init /\ [][Next]_vars
    /\ WF_vars(Tick)
    /\ \A w \in WaitIds : WF_vars(wait_for_callback_poll(w))
    /\ \A r \in Ids : WF_vars(\E o \in PostOutcomes : send_async_request_end(r, o))

\* ConcurrentSpec: several requests of adapt_topic_for_niche in flight at
\* once, with the callbacks the engine sends for them on the topic route.
EngineBodies == {b \in Bodies : b.json /\ b.rid.t = "id" /\ b.payload.t # "nonstring"}

ConcurrentNext ==
    \/ send_async_request_begin("topic", MaxConcurrent)
    \/ \E r \in Ids, o \in PostOutcomes : send_async_request_end(r, o)
    \/ \E w \in WaitIds, r \in Ids : wait_for_callback_begin(w, r, DefaultTimeout)
    \/ \E w \in WaitIds : wait_for_callback_poll(w)
    \/ \E b \in EngineBodies : handle_topic_callback(b)
    \/ cleanup_old_requests
    \/ Tick

ConcurrentSpec == Init /\ [][ConcurrentNext]_vars

\* ---- the callers in post_system.py ----
\* result.get(<key>, '').strip() on a result dict
ResultField(result, key) == IF result.field = key THEN Strip(result.value) ELSE <<>>

ReturnNone == [t |-> "None", s |-> <<>>]
ReturnStr(s) == [t |-> "str", s |-> s]

\* what adapt_topic_for_niche returns for the result of its wait
adapt_topic_for_niche(result) ==
    IF result.t = "dict" /\ result.success
    THEN IF ResultField(result, "adapted_topic") # <<>>
         THEN ReturnStr(ResultField(result, "adapted_topic"))
         ELSE ReturnNone
    ELSE ReturnNone

\* what generate_post_content returns for the result of its wait
generate_post_content(result) ==
    IF result.t = "dict" /\ result.success
    THEN IF ResultField(result, "generated_post") # <<>>
         THEN ReturnStr(ResultField(result, "generated_post"))
         ELSE ReturnNone
    ELSE ReturnNone

\* ---- vocabulary of the properties ----
Returned(w) == wait[w].pc = "returned"
Started(w) == wait[w].pc # "idle"
Expired(w) == Returned(w) /\ wait[w].result = ResultNone
Delivered(w) == Returned(w) /\ wait[w].result.t = "dict"
WaitsOn(r) == {w \in WaitIds : Started(w) /\ wait[w].rid = r}
\* the first call of wait_for_callback made for r (calls are numbered in order)
IsFirstWaitOn(w, r) == w \in WaitsOn(r) /\ \A v \in WaitsOn(r) : w <= v
Failed(r) == req[r].outcome = "failed"
\* the dict entry of key k, as a sequence of length 0 or 1
EntryOf(d, k) == IF k \in DOMAIN d THEN <<d[k]>> ELSE <<>>

\* C1: no request id is both accepted by a callback handler (HTTP 200) and
\* reported to its waiter as expired (wait_for_callback returns None).
C1_AcceptedNeverExpired ==
    \A r \in Ids : \A w \in WaitIds :
        (IsFirstWaitOn(w, r) /\ Expired(w)) => accepted[r] = {}

\* C6: a wait on a request that send_async_request marked failed ends before
\* its timeout has run out.
C6_FailedEndsWaitEarly ==
    [][\A w \in WaitIds :
          (wait[w].pc = "sleep" /\ wait'[w].pc = "returned" /\ Failed(wait[w].rid))
              => now - wait[w].start < wait[w].timeout]_vars

\* C7: the value reported for a timeout (the engine accepted the request and
\* never called back) differs from the value reported for a failed request
\* (the dispatch was rejected), for wait_for_callback and for the callers
\* built on it.
TimeoutCase(w) == Returned(w) /\ req[wait[w].rid].outcome = "accepted" /\ accepted[wait[w].rid] = {}
FailedCase(w) == Returned(w) /\ Failed(wait[w].rid) /\ accepted[wait[w].rid] = {}

C7_TimeoutDistinctFromFailed ==
    \A w1 \in WaitIds, w2 \in WaitIds :
        (TimeoutCase(w1) /\ FailedCase(w2)) =>
            /\ wait[w1].result # wait[w2].result
            /\ adapt_topic_for_niche(wait[w1].result) # adapt_topic_for_niche(wait[w2].result)
            /\ generate_post_content(wait[w1].result) # generate_post_content(wait[w2].result)

\* C8: a result buffered for a pending request came through the route of
\* the request's own kind.
C8_ResolvedOnlyByOwnRoute ==
    \A r \in DOMAIN callback_handlers \cap DOMAIN pending_requests :
        callback_handlers[r].field = FieldOf(pending_requests[r].callback_type)

\* C4: when a callback for r was accepted before the waiter's deadline, the
\* waiter returns the result that callback stored (its payload, trimmed as the
\* handler stores it) and does so before its timeout has run out.
C4_RoundTrip ==
    [][\A w \in WaitIds : \A r \in Ids :
          ( /\ wait[w].pc # "returned" /\ wait'[w].pc = "returned" /\ wait'[w].rid = r
            /\ r \in DOMAIN callback_handlers
            /\ wait[w].pc = "sleep" =>
                  callback_handlers[r].timestamp < wait[w].start + wait[w].timeout )
          => /\ wait'[w].result = callback_handlers[r]
             /\ wait[w].pc = "sleep" => now - wait[w].start < wait[w].timeout]_vars

\* a step of a callback handler with the given body
CallbackStep(body) ==
    /\ UNCHANGED <<pending_requests, next_id, req, wait>>
    /\ body.rid = last_call'.rid
    /\ \E route \in Kinds : handle_callback(route, body)

\* C2 as stated: a callback POST whose request_id is not in the pending
\* registry gets HTTP 400 and leaves pending_requests and callback_handlers
\* unchanged.
NotPending(body) ==
    body.json /\ (body.rid.t = "id" => body.rid.v \notin DOMAIN pending_requests)

C5_ConsumedOnce ==
    \A r \in Ids : Cardinality({w \in WaitsOn(r) : Delivered(w)}) <= 1

\* witness of C5: a later wait on a delivered id has returned None, and a
\* duplicate callback for the id was turned away
C5_Witness ==
    \E w1 \in WaitIds, w2 \in WaitIds :
        /\ w1 < w2 /\ wait[w1].rid = wait[w2].rid
        /\ Delivered(w1) /\ Expired(w2)
        /\ last_call.rid = RidOf(wait[w1].rid) /\ last_call.status = 400

\* C10: a waiter only ever receives a payload that a callback carried with
\* the waiter's own request id, and a callback, a poll, a pickup or a timeout
\* for request a leaves the registry entries and the waits of every other
\* request b as they were.
CallbackFor(a) == \E body \in Bodies : body.rid = RidOf(a) /\ CallbackStep(body)
WaitStepFor(a) ==
    /\ UNCHANGED <<accepted, last_call, next_id>>
    /\ \E w \in WaitIds :
          \/ wait[w].rid = a /\ wait_for_callback_poll(w)
          \/ \E t \in Timeouts : wait_for_callback_begin(w, a, t)

C10_Independent ==
    [][/\ \A w \in WaitIds :
            (wait'[w].pc = "returned" /\ wait'[w].result.t = "dict")
                => wait'[w].result.value \in accepted'[wait'[w].rid]
       /\ \A a \in Ids, b \in Ids :
            (a # b /\ (CallbackFor(a) \/ WaitStepFor(a)))
                => /\ EntryOf(pending_requests', b) = EntryOf(pending_requests, b)
                   /\ EntryOf(callback_handlers', b) = EntryOf(callback_handlers, b)
                   /\ accepted'[b] = accepted[b]
                   /\ \A w \in WaitsOn(b) : wait'[w] = wait[w]]_vars

\* witness of C10: two requests in flight got callbacks with different
\* payloads and each waiter has received its own
C10_Witness ==
    \E w1 \in WaitIds, w2 \in WaitIds :
        /\ wait[w1].rid # wait[w2].rid
        /\ Delivered(w1) /\ Delivered(w2)
        /\ wait[w1].result.value # wait[w2].result.value

\* C11: a sweep removes every pending entry whose timestamp is older than the
\* sweep age, whatever its status and whether or not a result is buffered for
\* it, together with that result, and leaves every other entry and every
\* other buffered result as it was.
SweepStep ==
    /\ UNCHANGED <<next_id, req, wait, accepted, last_call>>
    /\ DOMAIN pending_requests' # DOMAIN pending_requests

C11_SweepRemovesOldOnly ==
    [][SweepStep =>
          \A r \in Ids :
              IF r \in DOMAIN pending_requests
                 /\ pending_requests[r].timestamp < now - CleanupAge
              THEN /\ r \notin DOMAIN pending_requests'
                   /\ r \notin DOMAIN callback_handlers'
              ELSE /\ EntryOf(pending_requests', r) = EntryOf(pending_requests, r)
                   /\ EntryOf(callback_handlers', r) = EntryOf(callback_handlers, r)]_vars

\* witness of C11: the entry of a request whose dispatch failed, with a result
\* buffered for it and no waiter, is gone with its result while a younger
\* entry is still registered
C11_Witness ==
    \E r \in Ids, q \in Ids :
        /\ req[r].pc = "sent" /\ Failed(r) /\ accepted[r] # {}
        /\ r \notin DOMAIN pending_requests
        /\ r \notin DOMAIN callback_handlers
        /\ q \in DOMAIN pending_requests
        /\ q \in DOMAIN callback_handlers

\* ==== the conversation state machine of the bot (src/bot.py) ====
\* the attributes of class BotStates and their values
BotStates ==
    [WAITING_EMAIL |-> "waiting_email",
     EMAIL_VERIFIED |-> "email_verified",
     WAITING_NICHE_DESCRIPTION |-> "waiting_niche_description",
     WAITING_NICHE_CONFIRMATION |-> "waiting_niche_confirmation",
     NICHE_CONFIRMED |-> "niche_confirmed",
     REGISTERED |-> "registered",
     WAITING_POST_ANSWER |-> "waiting_post_answer",
     POST_GENERATED |-> "post_generated"]

\* the outcome of an expression that raises AttributeError
AttributeError == "AttributeError"

\* BotStates.<name>: the value, or AttributeError for a name the class lacks
BotStatesAttr(name) == IF name \in DOMAIN BotStates THEN BotStates[name] ELSE AttributeError

\* the state the scheduler stores for a user who blocked the bot
Blocked == "blocked"

\* the niches the classifier may propose
Niches == {"n1", "n2"}

\* the dict display state_flow of get_previous_state, as written: pairs of
\* attribute names of BotStates
state_flow ==
    << <<"EMAIL_VERIFIED", "WAITING_EMAIL">>,
       <<"WAITING_NICHE_DESCRIPTION", "EMAIL_VERIFIED">>,
       <<"WAITING_NICHE_CONFIRMATION", "WAITING_NICHE_DESCRIPTION">>,
       <<"REGISTERED", "WAITING_NICHE_CONFIRMATION">>,
       <<"WAITING_POST_GOAL", "REGISTERED">>,
       <<"WAITING_POST_ANSWER", "WAITING_POST_GOAL">>,
       <<"POST_GENERATED", "WAITING_POST_ANSWER">> >>

\* state_flow.get(current_state, current_state) with the attributes resolved
\* in the table attrs
StateFlowGet(attrs, current_state) ==
    LET hits == {i \in DOMAIN state_flow : attrs[state_flow[i][1]] = current_state}
    IN IF hits = {} THEN current_state
       ELSE attrs[state_flow[CHOOSE i \in hits : TRUE][2]]

\* (mutant) a class BotStates that also defines WAITING_POST_GOAL, and the
\* lookup over it
BotStatesWithPostGoal ==
    [n \in DOMAIN BotStates \cup {"WAITING_POST_GOAL"} |->
        IF n \in DOMAIN BotStates THEN BotStates[n] ELSE "waiting_post_goal"]

get_previous_state_resolved(current_state) ==
    StateFlowGet(BotStatesWithPostGoal, current_state)

\* (mutant) a lookup that gives the first state for a state it does not know
get_previous_state_or_first(current_state) ==
    IF StateFlowGet(BotStatesWithPostGoal, current_state) = current_state
    THEN BotStates.WAITING_EMAIL
    ELSE StateFlowGet(BotStatesWithPostGoal, current_state)

\* get_previous_state: building the dict evaluates every attribute it names,
\* so a name BotStates lacks raises before the lookup
get_previous_state(current_state) ==
    IF \A i \in DOMAIN state_flow :
           state_flow[i][1] \in DOMAIN BotStates /\ state_flow[i][2] \in DOMAIN BotStates
    THEN StateFlowGet(BotStates, current_state)
    ELSE AttributeError

\* ---- rollback_to_previous_state ----
\* db.update_user_state: an UPDATE of the user's row; without a row nothing
\* is stored
StoreState(stored, state) == IF stored = "none" THEN "none" ELSE state

RECURSIVE StoreStates(_, _)
StoreStates(stored, writes) ==
    IF writes = <<>> THEN stored
    ELSE StoreStates(StoreState(stored, Head(writes)), Tail(writes))

\* what a call does: the states it writes, in order, and the prompt it shows
RollbackResult(writes, prompt) == [writes |-> writes, prompt |-> prompt]

\* the except branch: the main menu is shown
RollbackExcept(writes) == RollbackResult(writes, "main_menu")

\* the branch for a previous state not named before line 175; the condition
\* of line 175 reads BotStates.WAITING_POST_GOAL
RollbackPostBranches(previous_state, has_content) ==
    IF "WAITING_POST_GOAL" \notin DOMAIN BotStates
    THEN RollbackExcept(<<previous_state>>)
    ELSE IF previous_state = BotStatesAttr("WAITING_POST_GOAL")
    THEN RollbackResult(<<previous_state>>, "main_menu")
    ELSE IF previous_state = BotStates.WAITING_POST_ANSWER
    THEN IF has_content
         THEN RollbackResult(<<previous_state, BotStatesAttr("WAITING_POST_GOAL")>>,
                             "post_goal_selection")
         ELSE RollbackResult(<<previous_state>>, "main_menu")
    ELSE RollbackResult(<<previous_state>>, "main_menu")

\* the body of rollback_to_previous_state for the given current_state
RollbackEffect(current_state, has_content) ==
    LET previous_state == get_previous_state(current_state) IN
    IF previous_state = AttributeError THEN RollbackExcept(<<>>)
    ELSE IF previous_state = current_state
    THEN RollbackResult(<<>>, IF current_state = BotStates.WAITING_EMAIL
                              THEN "welcome" ELSE "main_menu")
    ELSE IF previous_state = BotStates.WAITING_EMAIL
    THEN RollbackResult(<<previous_state>>, "welcome")
    ELSE IF previous_state = BotStates.EMAIL_VERIFIED
    THEN RollbackResult(<<previous_state>>, "niche_request")
    ELSE IF previous_state = BotStates.WAITING_NICHE_DESCRIPTION
    THEN RollbackResult(<<previous_state>>, "niche_retry")
    ELSE IF previous_state = BotStates.WAITING_NICHE_CONFIRMATION
    THEN RollbackResult(<<previous_state, BotStates.WAITING_NICHE_DESCRIPTION>>,
                        "niche_retry")
    ELSE IF previous_state = BotStates.REGISTERED
    THEN RollbackResult(<<previous_state>>, "main_menu")
    ELSE RollbackPostBranches(previous_state, has_content)

\* a handler's except block: the state is read from the row (a default when
\* there is no row) and rollback_to_previous_state is called with it
RollbackFrom(stored, default, has_content) ==
    LET current_state == IF stored = "none" THEN default ELSE stored
        effect == RollbackEffect(current_state, has_content)
    IN [state |-> StoreStates(stored, effect.writes),
        current |-> current_state,
        prompt |-> effect.prompt]

\* ---- post_system.py ----
\* an answer is the list of its words after split(); the texts the handlers
\* pass on are stripped and not empty
Words == {"a", "b"}
Answers == UNION {[1..n -> Words] : n \in 1..MaxWords}

\* validate_user_answer: an empty answer and an answer with fewer unique
\* words than half its words are refused; there is no minimum word count
validate_user_answer(answer) ==
    IF Len(answer) = 0 THEN [is_valid |-> FALSE, error |-> "empty"]
    ELSE IF 2 * Cardinality({answer[i] : i \in 1..Len(answer)}) < Len(answer)
    THEN [is_valid |-> FALSE, error |-> "repeated_words"]
    ELSE [is_valid |-> TRUE, error |-> "none"]

\* the rpc reset_weekly_counters as check_user_post_limit calls it: the
\* counter is zeroed when a new week has begun
ResetIfNeeded(count, week_elapsed) == IF week_elapsed THEN 0 ELSE count

\* (mutant) a limit check that still lets the user generate at the limit
check_user_post_limit_inclusive(posts_count) ==
    [can_generate |-> posts_count <= WEEKLY_POST_LIMIT,
     posts_generated |-> posts_count,
     posts_limit |-> WEEKLY_POST_LIMIT]

\* check_user_post_limit on the counter it reads after the reset
check_user_post_limit(posts_count) ==
    [can_generate |-> posts_count < WEEKLY_POST_LIMIT,
     posts_generated |-> posts_count,
     posts_limit |-> WEEKLY_POST_LIMIT]

\* what a request to the external engine comes to: send_async_request
\* raises, wait_for_callback times out (None), the callback reports a
\* failure, the callback holds an empty text, the callback holds a text
EngineOutcomes == {"send_error", "timeout", "failed", "empty", "content"}

\* (mutant) a call that takes whatever comes back for a text
EngineCallAlwaysText(engine) ==
    [dispatches |-> 1, raised |-> "none", value |-> TRUE]

\* a whole call of adapt_topic_for_niche or generate_post_content, as its
\* caller sees it: one call of send_async_request, then the wait; the
\* try/except of the function catches every exception and gives None, as a
\* timeout and a failure do, so nothing is raised to the caller
EngineCall(engine) ==
    [dispatches |-> 1, raised |-> "none", value |-> engine = "content"]

\* the result of process_topic_request or process_post_generation, with
\* the counter the row holds afterwards
PostResult(success, message, engine, dispatches, alerts, count, limit_read) ==
    [success |-> success, message |-> message, engine |-> engine,
     dispatches |-> dispatches, alerts |-> alerts, count |-> count,
     limit_read |-> limit_read, saved |-> FALSE, inserted |-> 0, incremented |-> 0]

\* the result of a run of process_post_generation that reached
\* save_user_post: the rows inserted into user_posts and the increments of
\* the counter it made
SavedResult(success, message, engine, dispatches, posts_count, save) ==
    [success |-> success, message |-> message, engine |-> engine,
     dispatches |-> dispatches, alerts |-> 0, count |-> posts_count + save.incremented,
     limit_read |-> posts_count, saved |-> save.value = "True",
     inserted |-> save.inserted, incremented |-> save.incremented]

\* what one call of save_user_post comes to: the row is inserted and the
\* counter incremented (True); the insert returns no data (False);
\* get_user_by_telegram_id or the insert raises; the row is inserted and the
\* rpc increment_weekly_post_counter raises without effect; the row is
\* inserted, the rpc takes effect and its response is lost, which raises
SaveOutcomes == {"ok", "no_data", "raise_early", "rpc_raise", "rpc_lost"}
SaveReturns == {"ok", "no_data"}

\* the calls of save_user_post that retry_async_operation makes for one
\* save: every call but the last raises, and the last returns or is the
\* call number MAX_RETRIES + 1
SaveRuns ==
    UNION {{attempts \in [1..n -> SaveOutcomes] :
                /\ \A i \in 1..(n - 1) : attempts[i] \notin SaveReturns
                /\ attempts[n] \in SaveReturns \/ n = MAX_RETRIES + 1} :
           n \in 1..(MAX_RETRIES + 1)}

\* the saves of the conversation model: at once, no data, every call raises
\* before the insert
PlainSaveRuns ==
    {<<"ok">>, <<"no_data">>, [i \in 1..(MAX_RETRIES + 1) |-> "raise_early"]}

\* retry_async_operation(lambda: db.save_user_post(...)): what it returns
\* or that it raised, and what the calls left in the database
save_user_post(attempts) ==
    [value |-> CASE attempts[Len(attempts)] = "ok" -> "True"
                 [] attempts[Len(attempts)] = "no_data" -> "False"
                 [] OTHER -> "raised",
     inserted |-> Cardinality({i \in 1..Len(attempts) :
                        attempts[i] \in {"ok", "rpc_raise", "rpc_lost"}}),
     incremented |-> Cardinality({i \in 1..Len(attempts) :
                        attempts[i] \in {"ok", "rpc_lost"}})]

\* the runs of process_topic_request: whether a new week has begun, whether
\* the limit check raises, whether the day has content, the engine
\* (the engine counts only in a run that reaches it)
TopicRuns ==
    {run \in [week_elapsed : BOOLEAN, fail : {"none", "limit_check"},
              content : BOOLEAN, engine : EngineOutcomes] :
        (run.fail # "none" \/ ~run.content) => run.engine = "content"}

process_topic_request(count, run) ==
    IF run.fail = "limit_check" THEN PostResult(FALSE, "ERROR_GENERAL", "none", 0, 0, count, NotRead)
    ELSE LET posts_count == ResetIfNeeded(count, run.week_elapsed)
             limit_info == check_user_post_limit(posts_count)
         IN IF ~limit_info.can_generate
            THEN PostResult(FALSE, "WEEKLY_LIMIT_EXCEEDED", "none", 0, 0, posts_count, posts_count)
            ELSE IF ~run.content
            THEN PostResult(FALSE, "ERROR_NO_TOPICS_AVAILABLE", "none", 0, 0, posts_count, posts_count)
            ELSE LET adapted == EngineCall(run.engine) IN
                 IF adapted.raised = "N8NTimeoutError"
                 THEN PostResult(FALSE, "ERROR_TOPIC_TIMEOUT", run.engine, adapted.dispatches, 1,
                                 posts_count, posts_count)
                 ELSE IF adapted.raised = "N8NConnectionError"
                 THEN PostResult(FALSE, "ERROR_TOPIC_ADAPTATION", run.engine, adapted.dispatches, 1,
                                 posts_count, posts_count)
                 ELSE IF ~adapted.value
                 THEN PostResult(FALSE, "ERROR_TOPIC_ADAPTATION", run.engine, adapted.dispatches, 0,
                                 posts_count, posts_count)
                 ELSE PostResult(TRUE, "TOPIC_SUGGESTION", run.engine, adapted.dispatches, 0,
                                 posts_count, posts_count)

\* where process_post_generation can fail besides the engine and the save:
\* the limit check raises, the limit check after the save raises
PostFails == {"none", "limit_check", "recheck"}

\* the runs of process_post_generation
\* (a failure other than the engine's counts only beside an engine that
\* delivers; the answer is read by validate_user_answer alone, so every
\* answer goes through the run where nothing else happens and the one-word
\* answers go through all the others)
PostRunsWith(saves) ==
    {run \in [answer : Answers, week_elapsed : BOOLEAN, fail : PostFails,
              engine : EngineOutcomes, save : saves] :
        /\ run.fail # "none" => run.engine = "content"
        /\ run.save # <<"ok">> => run.engine = "content" /\ run.fail = "none"
        /\ Len(run.answer) > 1
             => /\ ~run.week_elapsed /\ run.fail = "none" /\ run.engine = "content"
                /\ run.save = <<"ok">>}

PostRuns == PostRunsWith(PlainSaveRuns)

process_post_generation(count, run) ==
    IF ~validate_user_answer(run.answer).is_valid
    THEN PostResult(FALSE, "ERROR_ANSWER_TOO_SHORT", "none", 0, 0, count, NotRead)
    ELSE IF run.fail = "limit_check"
    THEN PostResult(FALSE, "ERROR_POST_GENERATION", "none", 0, 0, count, NotRead)
    ELSE LET posts_count == ResetIfNeeded(count, run.week_elapsed)
             limit_info == check_user_post_limit(posts_count)
         IN IF ~limit_info.can_generate
            THEN PostResult(FALSE, "WEEKLY_LIMIT_EXCEEDED", "none", 0, 0, posts_count, posts_count)
            ELSE LET generated == EngineCall(run.engine) IN
                 IF generated.raised = "N8NTimeoutError"
                 THEN PostResult(FALSE, "ERROR_POST_TIMEOUT", run.engine, generated.dispatches, 1,
                                 posts_count, posts_count)
                 ELSE IF generated.raised = "N8NConnectionError"
                 THEN PostResult(FALSE, "ERROR_POST_GENERATION", run.engine, generated.dispatches, 1,
                                 posts_count, posts_count)
                 ELSE IF ~generated.value
                 THEN PostResult(FALSE, "ERROR_POST_GENERATION", run.engine, generated.dispatches, 0,
                                 posts_count, posts_count)
                 ELSE LET save == save_user_post(run.save) IN
                      IF save.value # "True" \/ run.fail = "recheck"
                      THEN SavedResult(FALSE, "ERROR_POST_GENERATION", run.engine,
                                       generated.dispatches, posts_count, save)
                      ELSE SavedResult(TRUE, "GENERATED_POST", run.engine,
                                       generated.dispatches, posts_count, save)

\* ---- the handlers ----
\* what a text may hold for handle_email_input: no valid email, an email that
\* is not in allowed_emails, an allowed email
Emails == {"no_email", "not_allowed", "allowed"}

\* where a call to Telegram or to the database raises inside a handler:
\* nowhere, before the handler's first write, between two writes, after its
\* last write
FailPoints == {"none", "early", "mid", "late"}

\* the record of a turn: the handler, what it came to, the current_state it
\* passed to rollback_to_previous_state ("none" when it did not call it) and
\* the prompt shown last
\* a turn that ran process_topic_request or process_post_generation with
\* the result res: how often send_async_request was called, how many admin
\* notifications were scheduled, the counter the limit check read, what the
\* engine call came to ("none" without a call), whether a post was saved
PostTurn(op, outcome, rollback, prompt, res) ==
    [op |-> op, outcome |-> outcome, rollback |-> rollback, prompt |-> prompt,
     dispatches |-> res.dispatches, alerts |-> res.alerts,
     limit_read |-> res.limit_read, engine |-> res.engine, saved |-> res.saved,
     inserted |-> res.inserted, incremented |-> res.incremented]

\* a turn that calls neither the external engine nor the admin notifier
Turn(op, outcome, rollback, prompt) ==
    PostTurn(op, outcome, rollback, prompt,
             [dispatches |-> 0, alerts |-> 0, limit_read |-> NotRead,
              engine |-> "none", saved |-> FALSE, inserted |-> 0, incremented |-> 0])

\* the bot's variables after a turn that may change the weekly counter; the
\* callback manager is not touched
BotPostStep(state, niche, temp, content, change, count, turn) ==
    /\ user_state' = state
    /\ user_niche' = niche
    /\ temp_niche' = temp
    /\ current_content' = content
    /\ change_requested' = change
    /\ weekly_posts_count' = count
    /\ last_turn' = turn
    /\ UNCHANGED <<pending_requests, callback_handlers, next_id, req, wait,
                   accepted, last_call, retry, other_users, wrapper, limiter>>

\* the bot's variables after a turn that leaves the weekly counter alone
BotStep(state, niche, temp, content, change, turn) ==
    BotPostStep(state, niche, temp, content, change, weekly_posts_count, turn)

\* a turn that ends in the handler's except block after the handler stored
\* state and temp: rollback_to_previous_state is called
FailedTurn(op, state, niche, temp, default) ==
    LET rb == RollbackFrom(state, default, current_content) IN
    BotStep(rb.state, niche, temp, current_content, change_requested,
            Turn(op, "failed", rb.current, rb.prompt))

\* a turn that only shows a message
MessageTurn(op, outcome, prompt) ==
    BotStep(user_state, user_niche, temp_niche, current_content, change_requested,
            Turn(op, outcome, "none", prompt))

\* (mutant) an email handler without the look-up in the allowed list
handle_email_input_any_email(op, email, fail) ==
    IF fail # "none" THEN FailedTurn(op, user_state, user_niche, temp_niche,
                                     BotStates.WAITING_EMAIL)
    ELSE IF email = "no_email" THEN MessageTurn(op, "rejected", "invalid_email")
    ELSE BotStep(BotStates.WAITING_NICHE_DESCRIPTION, user_niche, temp_niche,
                 current_content, change_requested,
                 Turn(op, "email_accepted", "none", "niche_request"))

\* db.create_user stores the row in waiting_niche_description; for a row
\* that exists the state is updated to it
handle_email_input(op, email, fail) ==
    IF fail = "early" THEN FailedTurn(op, user_state, user_niche, temp_niche,
                                      BotStates.WAITING_EMAIL)
    ELSE IF email # "allowed"
    THEN MessageTurn(op, "rejected",
                     IF email = "no_email" THEN "invalid_email" ELSE "email_not_found")
    ELSE IF fail = "none"
    THEN BotStep(BotStates.WAITING_NICHE_DESCRIPTION, user_niche, temp_niche,
                 current_content, change_requested,
                 Turn(op, "email_accepted", "none", "niche_request"))
    ELSE FailedTurn(op, BotStates.WAITING_NICHE_DESCRIPTION, user_niche, temp_niche,
                    BotStates.WAITING_EMAIL)

\* detected: the niche detect_niche returns, "none" for None
handle_niche_description(op, detected, fail) ==
    IF fail = "early" THEN FailedTurn(op, user_state, user_niche, temp_niche,
                                      BotStates.WAITING_NICHE_DESCRIPTION)
    ELSE IF detected = "none"
    THEN IF fail = "none" THEN MessageTurn(op, "no_niche", "error_n8n_webhook")
         ELSE FailedTurn(op, user_state, user_niche, temp_niche,
                         BotStates.WAITING_NICHE_DESCRIPTION)
    ELSE IF fail = "none"
    THEN BotStep(user_state, user_niche, detected, current_content, change_requested,
                 Turn(op, "proposed", "none", "niche_result"))
    ELSE FailedTurn(op, user_state, user_niche, detected,
                    BotStates.WAITING_NICHE_DESCRIPTION)

\* run: the run of process_post_generation the answer starts
handle_post_answer(op, run, fail) ==
    IF ~current_content
    THEN IF fail = "none" THEN MessageTurn(op, "no_content", "content_not_found")
         ELSE FailedTurn(op, user_state, user_niche, temp_niche,
                         BotStates.WAITING_POST_ANSWER)
    ELSE IF fail = "early"
    THEN FailedTurn(op, user_state, user_niche, temp_niche, BotStates.WAITING_POST_ANSWER)
    ELSE LET res == process_post_generation(weekly_posts_count, run)
             count == IF user_state = "none" THEN weekly_posts_count ELSE res.count
             state == StoreState(user_state, IF res.success THEN BotStates.POST_GENERATED
                                             ELSE BotStates.WAITING_POST_ANSWER)
         IN IF fail = "none"
            THEN BotPostStep(state, user_niche, temp_niche, current_content,
                             change_requested, count,
                             PostTurn(op, IF res.success THEN "generated"
                                          ELSE "not_generated",
                                      "none", res.message, res))
            ELSE LET rb == RollbackFrom(state, BotStates.WAITING_POST_ANSWER,
                                        current_content)
                 IN BotPostStep(rb.state, user_niche, temp_niche, current_content,
                                change_requested, count,
                                PostTurn(op, "failed", rb.current, rb.prompt, res))

\* (mutant) a routing that has no branch for waiting_niche_description
TextRouteNoDescription(state) ==
    IF state = "none" \/ state = BotStates.WAITING_EMAIL THEN "handle_email_input"
    ELSE IF state = BotStates.WAITING_POST_ANSWER THEN "handle_post_answer"
    ELSE IF state = BotStates.REGISTERED THEN "handle_registered_user_message"
    ELSE "show_main_menu"

\* (mutant) every text of a user with a row is taken as a niche description
TextRouteAllToNiche(state) ==
    IF state = "none" THEN "handle_email_input" ELSE "handle_niche_description"

\* the handler handle_text_message routes a text to, by the stored state
TextRoute(state) ==
    IF state = "none" \/ state = BotStates.WAITING_EMAIL THEN "handle_email_input"
    ELSE IF state = BotStates.WAITING_NICHE_DESCRIPTION THEN "handle_niche_description"
    ELSE IF state = BotStates.WAITING_POST_ANSWER THEN "handle_post_answer"
    ELSE IF state = BotStates.REGISTERED THEN "handle_registered_user_message"
    ELSE "show_main_menu"

\* the text holds what the handler it is routed to reads from it: an
\* email, a description (detected: what detect_niche makes of it), an answer
handle_text_message(fail) ==
    LET route == TextRoute(user_state) IN
    IF route = "handle_email_input"
    THEN \E email \in Emails : handle_email_input("text", email, fail)
    ELSE IF route = "handle_niche_description"
    THEN \E detected \in {"none"} \cup Niches :
            handle_niche_description("text", detected, fail)
    ELSE IF route = "handle_post_answer"
    THEN \E run \in PostRuns : handle_post_answer("text", run, fail)
    ELSE MessageTurn("text", IF fail = "none" THEN "menu" ELSE "failed",
                     IF fail = "none" THEN "main_menu" ELSE "error_general")

\* what getting and transcribing the voice file comes to: an exception
\* inside handle_voice_message, no text, a text
Transcriptions == {"raise", "none", "text"}

\* has_access: the answer of subscription_required's check_user_access
handle_voice_message(has_access, transcribed, fail) ==
    IF ~has_access THEN MessageTurn("voice", "denied", "subscription_expired")
    ELSE IF user_state \notin {BotStates.WAITING_NICHE_DESCRIPTION,
                               BotStates.WAITING_POST_ANSWER}
    THEN MessageTurn("voice", "not_accepted", "voice_not_accepted")
    ELSE IF transcribed = "raise"
    THEN FailedTurn("voice", user_state, user_niche, temp_niche, BotStates.REGISTERED)
    ELSE IF transcribed = "none"
    THEN MessageTurn("voice", "no_transcription", "error_voice_transcription")
    ELSE IF user_state = BotStates.WAITING_NICHE_DESCRIPTION
    THEN \E detected \in {"none"} \cup Niches :
            handle_niche_description("voice", detected, fail)
    ELSE \E run \in PostRuns : handle_post_answer("voice", run, fail)

\* ---- handle_callback_query ----
\* the callback data of the inline buttons
Buttons == {"niche_correct", "niche_retry", "change_niche", "suggest_topic",
            "write_post", "regenerate_post", "goal_reactions", "show_profile"}

\* db.update_user_niche: an UPDATE of the user's row
StoreNiche(stored, niche, new_niche) == IF stored = "none" THEN niche ELSE new_niche

\* the except block of handle_callback_query after the handler stored state,
\* niche and temp: with the update it builds, rollback_to_previous_state is
\* called (fake_update_ok), or building it raises and only an error is shown
CallbackFailedTurn(op, state, niche, temp, fake_update_ok) ==
    IF fake_update_ok
    THEN FailedTurn(op, state, niche, temp, BotStates.REGISTERED)
    ELSE BotStep(state, niche, temp, current_content, change_requested,
                 Turn(op, "failed", "none", "error_general"))

niche_correct(fail, fake_update_ok) ==
    IF temp_niche = "none" THEN MessageTurn("niche_correct", "no_proposal", "none")
    ELSE IF fail = "early"
    THEN CallbackFailedTurn("niche_correct", user_state, user_niche, temp_niche,
                            fake_update_ok)
    ELSE LET niche == StoreNiche(user_state, user_niche, temp_niche)
             state == StoreState(user_state, BotStates.REGISTERED)
         IN IF fail = "mid"
            THEN CallbackFailedTurn("niche_correct", user_state, niche, temp_niche,
                                    fake_update_ok)
            ELSE IF fail = "late"
            THEN LET rb == RollbackFrom(state, BotStates.REGISTERED, FALSE) IN
                 BotStep(IF fake_update_ok THEN rb.state ELSE state, niche, "none",
                         FALSE, FALSE,
                         Turn("niche_correct", "failed",
                              IF fake_update_ok THEN rb.current ELSE "none",
                              IF fake_update_ok THEN rb.prompt ELSE "error_general"))
            ELSE BotStep(state, niche, "none", FALSE, FALSE,
                         Turn("niche_correct", "saved", "none", "niche_saved"))

niche_retry(fail, fake_update_ok) ==
    IF fail # "none"
    THEN CallbackFailedTurn("niche_retry", user_state, user_niche, temp_niche,
                            fake_update_ok)
    ELSE BotStep(user_state, user_niche, "none", current_content, change_requested,
                 Turn("niche_retry", "retry", "none", "niche_retry"))

change_niche(fail, fake_update_ok) ==
    IF fail = "early"
    THEN CallbackFailedTurn("change_niche", user_state, user_niche, temp_niche,
                            fake_update_ok)
    ELSE LET state == StoreState(user_state, BotStates.WAITING_NICHE_DESCRIPTION) IN
         IF fail = "none"
         THEN BotStep(state, user_niche, temp_niche, current_content, TRUE,
                      Turn("change_niche", "changing", "none", "niche_request"))
         ELSE LET rb == RollbackFrom(state, BotStates.REGISTERED, current_content) IN
              BotStep(IF fake_update_ok THEN rb.state ELSE state, user_niche, temp_niche,
                      current_content, TRUE,
                      Turn("change_niche", "failed",
                           IF fake_update_ok THEN rb.current ELSE "none",
                           IF fake_update_ok THEN rb.prompt ELSE "error_general"))

\* (mutant) the handler without the test of the stored niche
handle_suggest_topic_any_niche(run, fail) ==
    IF fail = "early" THEN MessageTurn("suggest_topic", "failed", "error_general")
    ELSE IF user_state = "none"
    THEN MessageTurn("suggest_topic", IF fail = "none" THEN "no_user" ELSE "failed",
                     IF fail = "none" THEN "user_not_found" ELSE "error_general")
    ELSE LET res == process_topic_request(weekly_posts_count, run) IN
         BotPostStep(user_state, user_niche, temp_niche, current_content \/ res.success,
                     change_requested, res.count,
                     PostTurn("suggest_topic",
                              IF fail # "none" THEN "failed"
                              ELSE IF res.success THEN "topic" ELSE "no_topic",
                              "none",
                              IF fail # "none" THEN "error_general" ELSE res.message,
                              res))

\* handle_suggest_topic: topic_ok is whether process_topic_request succeeds
\* with content; the handler has its own except block and calls no rollback
handle_suggest_topic(run, fail) ==
    IF fail = "early" THEN MessageTurn("suggest_topic", "failed", "error_general")
    ELSE IF user_state = "none"
    THEN MessageTurn("suggest_topic", IF fail = "none" THEN "no_user" ELSE "failed",
                     IF fail = "none" THEN "user_not_found" ELSE "error_general")
    ELSE IF user_niche = "none"
    THEN MessageTurn("suggest_topic", IF fail = "none" THEN "no_niche" ELSE "failed",
                     IF fail = "none" THEN "niche_needed" ELSE "error_general")
    ELSE LET res == process_topic_request(weekly_posts_count, run) IN
         BotPostStep(user_state, user_niche, temp_niche, current_content \/ res.success,
                     change_requested, res.count,
                     PostTurn("suggest_topic",
                              IF fail # "none" THEN "failed"
                              ELSE IF res.success THEN "topic" ELSE "no_topic",
                              "none",
                              IF fail # "none" THEN "error_general" ELSE res.message,
                              res))

\* handle_write_post_request: the state to store is BotStates.WAITING_POST_GOAL
handle_write_post_request(fail) ==
    IF ~current_content /\ fail = "none"
    THEN MessageTurn("write_post", "no_content", "content_not_found")
    ELSE IF fail # "none" \/ BotStatesAttr("WAITING_POST_GOAL") = AttributeError
    THEN MessageTurn("write_post", "failed", "error_general")
    ELSE BotStep(StoreState(user_state, BotStatesAttr("WAITING_POST_GOAL")), user_niche,
                 temp_niche, current_content, change_requested,
                 Turn("write_post", "goal_asked", "none", "post_goal_selection"))

handle_goal_selection(fail) ==
    IF ~current_content /\ fail = "none"
    THEN MessageTurn("goal", "no_content", "content_not_found")
    ELSE IF fail = "early" \/ ~current_content
    THEN MessageTurn("goal", "failed", "error_general")
    ELSE BotStep(StoreState(user_state, BotStates.WAITING_POST_ANSWER), user_niche,
                 temp_niche, current_content, change_requested,
                 Turn("goal", IF fail = "none" THEN "question_asked" ELSE "failed", "none",
                      IF fail = "none" THEN "post_question" ELSE "error_general"))

\* (mutant) a regenerate handler that does not look for the content
handle_regenerate_post_any_session(fail) ==
    IF fail = "early"
    THEN MessageTurn("regenerate_post", "failed", "error_general")
    ELSE BotStep(StoreState(user_state, BotStates.WAITING_POST_ANSWER), user_niche,
                 temp_niche, current_content, change_requested,
                 Turn("regenerate_post", IF fail = "none" THEN "question_asked" ELSE "failed",
                      "none",
                      IF fail = "none" THEN "post_regenerate_question" ELSE "error_general"))

handle_regenerate_post(fail) ==
    IF ~current_content /\ fail = "none"
    THEN MessageTurn("regenerate_post", "no_content", "content_not_found")
    ELSE IF fail = "early" \/ ~current_content
    THEN MessageTurn("regenerate_post", "failed", "error_general")
    ELSE BotStep(StoreState(user_state, BotStates.WAITING_POST_ANSWER), user_niche,
                 temp_niche, current_content, change_requested,
                 Turn("regenerate_post", IF fail = "none" THEN "question_asked" ELSE "failed",
                      "none",
                      IF fail = "none" THEN "post_regenerate_question" ELSE "error_general"))

\* the whole handler: the access check of subscription_required, then the
\* branch of the button's callback data
handle_callback_query(data, has_access, fail, fake_update_ok) ==
    IF ~has_access THEN MessageTurn(data, "denied", "subscription_expired")
    ELSE IF data = "niche_correct" THEN niche_correct(fail, fake_update_ok)
    ELSE IF data = "niche_retry" THEN niche_retry(fail, fake_update_ok)
    ELSE IF data = "change_niche" THEN change_niche(fail, fake_update_ok)
    ELSE IF data = "suggest_topic"
    THEN \E run \in TopicRuns : handle_suggest_topic(run, fail)
    ELSE IF data = "write_post" THEN handle_write_post_request(fail)
    ELSE IF data = "regenerate_post" THEN handle_regenerate_post(fail)
    ELSE IF data = "goal_reactions" THEN handle_goal_selection(fail)
    ELSE MessageTurn(data, "shown", "profile")

\* ---- the scheduler's broadcast ----
\* the states get_users_for_reminder leaves out
incomplete_states == {"waiting_email", "email_verified", "waiting_niche_description",
                      "waiting_niche_confirmation", "niche_confirmed"}

\* send_daily_reminders for the user: when the row is selected the reminder
\* is sent, and a send the user's block makes fail stores the state blocked
send_daily_reminders(delivered) ==
    /\ user_state # "none"
    /\ user_state \notin incomplete_states
    /\ BotStep(IF delivered THEN user_state ELSE Blocked, user_niche, temp_niche,
               current_content, change_requested,
               Turn("reminder", IF delivered THEN "sent" ELSE "blocked", "none",
                    IF delivered THEN "reminder" ELSE "none"))

\* the scheduler's reset_weekly_counters on Monday: the rpc zeroes the
\* counter of the row
reset_weekly_counters ==
    /\ user_state # "none"
    /\ BotPostStep(user_state, user_niche, temp_niche, current_content,
                   change_requested, 0, Turn("reset_weekly_counters", "done", "none", "none"))

\* the states _send_reminder_to_user refuses (bot.py 917-922)
manual_incomplete_states ==
    {BotStates.WAITING_EMAIL, BotStates.EMAIL_VERIFIED,
     BotStates.WAITING_NICHE_DESCRIPTION, BotStates.WAITING_NICHE_CONFIRMATION}

\* _send_reminder_to_user for the user (the admin's /send_daily_reminders
\* with a telegram_id): a row in a refused state or no row gives False
\* before any send; otherwise the message is sent, and a failed send is
\* logged and stores nothing
send_reminder_to_user(delivered) ==
    IF user_state = "none" \/ user_state \in manual_incomplete_states
    THEN MessageTurn("manual_reminder", "refused", "none")
    ELSE MessageTurn("manual_reminder", IF delivered THEN "sent" ELSE "send_failed",
                     IF delivered THEN "reminder" ELSE "none")

\* the process restarts: context.user_data is kept in memory only (the
\* Application is built without persistence), so the session is empty again
restart ==
    /\ temp_niche # "none" \/ current_content
    /\ BotStep(user_state, user_niche, "none", FALSE, change_requested,
               Turn("restart", "done", "none", "none"))

\* ---- the specifications of the bot ----
\* BotSpec: one user from the first message on.  The handlers of one user
\* run one after the other; a text, a voice message, a press of any button
\* the chat may hold, or a broadcast may come at any time, any call to
\* Telegram or the database may fail, and the process may restart.
BotNext ==
    \/ \E fail \in FailPoints : handle_text_message(fail)
    \/ \E has_access \in BOOLEAN, transcribed \in Transcriptions, fail \in FailPoints :
            handle_voice_message(has_access, transcribed, fail)
    \/ \E data \in Buttons, has_access \in BOOLEAN, fail \in FailPoints,
          fake_update_ok \in BOOLEAN :
            handle_callback_query(data, has_access, fail, fake_update_ok)
    \/ \E delivered \in BOOLEAN : send_daily_reminders(delivered)
    \/ \E delivered \in BOOLEAN : send_reminder_to_user(delivered)
    \/ reset_weekly_counters
    \/ restart

BotSpec == Init /\ [][BotNext]_vars

\* db.get_users_count(): the rows of the users table
get_users_count == other_users + (IF user_state = "none" THEN 0 ELSE 1)

\* /start: the limit of users is looked at first; then a user without a row
\* is welcomed, one in waiting_niche_description is asked for the niche
\* again, any other is shown the main menu.  Nothing is stored.
start_command(fail) ==
    IF fail # "none" THEN MessageTurn("start", "failed", "error_general")
    ELSE IF get_users_count >= MAX_USERS
    THEN MessageTurn("start", "limit", "users_limit_reached")
    ELSE IF user_state = "none" \/ user_state = BotStates.WAITING_EMAIL
    THEN MessageTurn("start", "welcome", "welcome")
    ELSE IF user_state = BotStates.WAITING_NICHE_DESCRIPTION
    THEN MessageTurn("start", "continue", "niche_request")
    ELSE MessageTurn("start", "menu", "main_menu")

\* a user without a row, other than the one modelled, sends a text with an
\* allowed email: handle_text_message passes it to handle_email_input, which
\* creates the row
other_user_registers ==
    /\ other_users < MaxOtherUsers
    /\ other_users' = other_users + 1
    /\ UNCHANGED <<callback_vars, bot_vars, retry, wrapper, limiter>>

\* UsersSpec: the users table as a whole: /start and texts of the modelled
\* user, presses of its buttons, and registrations of other users.
UsersNext ==
    \/ \E fail \in {"none", "early"} : start_command(fail)
    \/ \E fail \in FailPoints : handle_text_message(fail)
    \/ \E data \in Buttons, fail \in FailPoints, fake_update_ok \in BOOLEAN :
            handle_callback_query(data, TRUE, fail, fake_update_ok)
    \/ other_user_registers

UsersSpec == Init /\ [][UsersNext]_vars

\* GenerationSpec: process_post_generation called again and again for one
\* user, one call after the other, with every course save_user_post can
\* take under retry_async_operation; the scheduler may reset the counter.
GenerationInit ==
    /\ CallbackInit
    /\ user_state = BotStates.WAITING_POST_ANSWER
    /\ user_niche \in Niches
    /\ temp_niche = "none"
    /\ current_content = TRUE
    /\ change_requested = FALSE
    /\ weekly_posts_count = 0
    /\ last_turn = NoTurn
    /\ RestInit

post_generation(run) ==
    LET res == process_post_generation(weekly_posts_count, run) IN
    BotPostStep(user_state, user_niche, temp_niche, current_content,
                change_requested, res.count,
                PostTurn("process_post_generation",
                         IF res.success THEN "generated" ELSE "not_generated",
                         "none", res.message, res))

GenerationNext ==
    \/ \E run \in PostRunsWith(SaveRuns) : post_generation(run)
    \/ reset_weekly_counters

GenerationSpec == GenerationInit /\ [][GenerationNext]_vars

\* RollbackSpec: rollback_to_previous_state called, again and again, with the
\* state it finds stored, for every value the state column may hold
StoredStates == {BotStates[n] : n \in DOMAIN BotStates} \cup {"waiting_post_goal", Blocked}

RollbackInit ==
    /\ CallbackInit
    /\ user_state \in StoredStates
    /\ user_niche \in {"none"} \cup Niches
    /\ temp_niche = "none"
    /\ current_content \in BOOLEAN
    /\ change_requested = FALSE
    /\ weekly_posts_count = 0
    /\ last_turn = NoTurn
    /\ RestInit

\* one call with current_state the stored state; the turn records whether a
\* call went before it
rollback_to_previous_state ==
    LET effect == RollbackEffect(user_state, current_content) IN
    BotStep(StoreStates(user_state, effect.writes), user_niche, temp_niche,
            current_content, change_requested,
            Turn("rollback", IF last_turn.op = "rollback" THEN "again" ELSE "first",
                 user_state, effect.prompt))

RollbackNext == rollback_to_previous_state

RollbackSpec == RollbackInit /\ [][RollbackNext]_vars

\* ==== properties of the conversation state machine ====
\* a turn of handle_niche_description in which the classifier proposed a
\* niche and every reply was sent
ProposalTurn ==
    \E op \in {"text", "voice"}, detected \in Niches :
        handle_niche_description(op, detected, "none")

\* C12: from waiting_niche_description, a description for which the niche
\* classification succeeds moves the stored state to
\* waiting_niche_confirmation, and not further.
C12_DescriptionMovesToConfirmation ==
    [][(user_state = BotStates.WAITING_NICHE_DESCRIPTION /\ ProposalTurn)
          => user_state' = BotStates.WAITING_NICHE_CONFIRMATION]_vars

\* a press of niche_correct, and one of niche_retry, by a user with access,
\* in which no call to Telegram or the database fails
ConfirmTurn == \E fake_update_ok \in BOOLEAN : niche_correct("none", fake_update_ok)
RejectTurn == \E fake_update_ok \in BOOLEAN : niche_retry("none", fake_update_ok)

\* C13: when the user confirms the proposed niche, the stored niche becomes
\* the proposed niche and the stored state becomes registered; when the user
\* rejects it, the stored state is waiting_niche_description, the proposed
\* niche is discarded and the stored niche is unchanged.
C13_ConfirmAndReject ==
    [][/\ (temp_niche # "none" /\ ConfirmTurn)
            => /\ user_niche' = temp_niche
               /\ user_state' = BotStates.REGISTERED
       /\ (user_state # "none" /\ RejectTurn)
            => /\ user_state' = BotStates.WAITING_NICHE_DESCRIPTION
               /\ temp_niche' = "none"
               /\ user_niche' = user_niche]_vars

\* a call of rollback_to_previous_state on the stored state
RollbackCall == rollback_to_previous_state

HappyPathEdges ==
    { <<"waiting_post_answer", "waiting_post_goal">>,
      <<"waiting_niche_confirmation", "waiting_niche_description">>,
      <<"waiting_niche_description", "waiting_email">>,
      <<"registered", "waiting_niche_confirmation">>,
      <<"waiting_post_goal", "registered">>,
      <<"post_generated", "waiting_post_answer">> }

\* C15: get_previous_state returns a state for every input without raising,
\* and for every target of a happy-path edge it returns the source of the
\* edge.
C15_PreviousStateTable ==
    /\ get_previous_state(user_state) \in StoredStates
    /\ \A edge \in HappyPathEdges : get_previous_state(edge[1]) = edge[2]

\* the predecessor the table state_flow gives a state, its attribute names
\* read as the states they stand for
TablePredecessor(state) == StateFlowGet(BotStatesWithPostGoal, state)

\* C16: for every current state that has a predecessor, the state stored
\* when rollback_to_previous_state finishes is that predecessor: exactly one
\* step back, never two or more.
C16_RollbackOneStep ==
    [][(RollbackCall /\ TablePredecessor(user_state) # user_state)
          => user_state' = TablePredecessor(user_state)]_vars

InputsToRegistered ==
    IF user_state = BotStates.REGISTERED THEN 0
    ELSE IF user_state = "none" THEN 3
    ELSE IF temp_niche # "none" THEN 1
    ELSE IF user_state = BotStates.WAITING_NICHE_DESCRIPTION THEN 2
    ELSE 3

\* a text message or a button press, served without a failure
TextOrButton ==
    \/ handle_text_message("none")
    \/ \E data \in Buttons : handle_callback_query(data, TRUE, "none", TRUE)

\* one input that brings the user nearer to registered
RecoveryStep == TextOrButton /\ InputsToRegistered' < InputsToRegistered

C19_NicheChangesOnlyOnRequest ==
    [][(user_niche # "none" /\ user_niche' # user_niche) => change_requested]_vars

\* C20: blocked is absorbing: once the stored state is blocked, no message,
\* button press, rollback or broadcast stores another state.
C20_BlockedAbsorbing ==
    [][user_state = Blocked => user_state' = Blocked]_vars

\* the step is a reminder broadcast or a manual reminder whose send to the
\* user was attempted
ReminderSendAttempted ==
    /\ last_turn'.op \in {"reminder", "manual_reminder"}
    /\ last_turn'.outcome \in {"sent", "blocked", "send_failed"}

\* C21: a delivery failure of the blocked-by-user kind stores the state
\* blocked, and while the stored state is blocked no daily or manual
\* reminder is sent to the user.
C21_NoSendToBlocked ==
    [][/\ (last_turn'.op = "reminder" /\ last_turn'.outcome = "blocked")
            => user_state' = Blocked
       /\ user_state = Blocked => ~ReminderSendAttempted]_vars

\* a text with an answer of three words comes in waiting_post_answer while
\* the session holds the content, and no call to Telegram or the database
\* fails
ThreeWordAnswerTurn ==
    /\ user_state = BotStates.WAITING_POST_ANSWER
    /\ current_content
    /\ \E run \in PostRuns :
          /\ Len(run.answer) = 3
          /\ run.fail = "none"
          /\ handle_post_answer("text", run, "none")

\* C22: an answer of three words in waiting_post_answer is answered with
\* ERROR_ANSWER_TOO_SHORT, the stored state stays waiting_post_answer, and
\* send_async_request is not called.
C22_ShortAnswerRefused ==
    [][ThreeWordAnswerTurn
          => /\ last_turn'.prompt = "ERROR_ANSWER_TOO_SHORT"
             /\ user_state' = BotStates.WAITING_POST_ANSWER
             /\ last_turn'.dispatches = 0]_vars

PostTimeoutTurn ==
    /\ user_state = BotStates.WAITING_POST_ANSWER
    /\ current_content
    /\ last_turn'.dispatches = 1
    /\ \E run \in PostRuns :
          /\ run.engine = "timeout"
          /\ run.fail = "none"
          /\ handle_post_answer("text", run, "none")

\* C24: when the wait of a post generation started in waiting_post_answer
\* times out, rollback_to_previous_state is called and the stored state
\* after the turn is waiting_post_goal, not waiting_post_answer.
C24_TimeoutRollsBack ==
    [][PostTimeoutTurn
          => /\ last_turn'.rollback # "none"
             /\ user_state' = "waiting_post_goal"]_vars

\* a topic request or an answer whose request to the external engine is
\* sent and whose wait for the callback times out; no call to Telegram or
\* the database fails
EngineTimeoutTurn ==
    /\ user_state # "none"
    /\ last_turn'.dispatches = 1
    /\ \/ /\ user_niche # "none"
          /\ \E run \in TopicRuns :
                /\ run.engine = "timeout"
                /\ run.fail = "none"
                /\ handle_suggest_topic(run, "none")
       \/ /\ current_content
          /\ \E run \in PostRuns :
                /\ run.engine = "timeout"
                /\ run.fail = "none"
                /\ handle_post_answer("text", run, "none")

\* C25: every timeout of a topic-adaptation or post-generation wait
\* schedules an admin timeout alert (notify_n8n_timeout as a task of its
\* own, which the reply to the user does not wait for).
C25_TimeoutAlertsAdmin ==
    [][EngineTimeoutTurn => last_turn'.alerts >= 1]_vars

\* C26: a button press changes the stored state only in the state whose
\* happy-path edge it triggers: niche_correct only from
\* waiting_niche_confirmation, write_post only from registered, a goal
\* button only from waiting_post_goal, regenerate_post only from
\* post_generated; pressed in another state it leaves the state as it is.
C26_ButtonsOnlyInTheirState ==
    [][user_state' # user_state
          => /\ last_turn'.op = "niche_correct"
                  => user_state = BotStates.WAITING_NICHE_CONFIRMATION
             /\ last_turn'.op = "write_post" => user_state = BotStates.REGISTERED
             /\ last_turn'.op = "goal" => user_state = "waiting_post_goal"
             /\ last_turn'.op = "regenerate_post"
                  => user_state = BotStates.POST_GENERATED]_vars

\* a text with the given email, or none, comes from a user without a row or
\* in waiting_email, and no call to Telegram or the database fails
EmailTurn(email) ==
    /\ user_state \in {"none", BotStates.WAITING_EMAIL}
    /\ handle_text_message("none")
    /\ handle_email_input("text", email, "none")

\* C27: without a row, or in waiting_email, a message with a valid email of
\* the allowed list stores waiting_niche_description (creating the row); a
\* message with no valid email or with an email that is not in the list
\* creates no row and leaves the stored state as it is.
C27_EmailGate ==
    [][\A email \in Emails :
          EmailTurn(email)
              => IF email = "allowed"
                 THEN user_state' = BotStates.WAITING_NICHE_DESCRIPTION
                 ELSE user_state' = user_state]_vars

\* witness of C27: the first message of a user held an allowed email and
\* the row was created
C27_Witness ==
    /\ last_turn.op = "text"
    /\ last_turn.outcome = "email_accepted"
    /\ user_state = BotStates.WAITING_NICHE_DESCRIPTION
    /\ user_niche = "none"

\* an answer, typed or spoken, is handled in waiting_post_answer
PostAnswerTurn ==
    /\ user_state = BotStates.WAITING_POST_ANSWER
    /\ last_turn'.op \in {"text", "voice"}
    /\ last_turn'.outcome \in {"generated", "not_generated"}

\* the regenerate button is pressed in post_generated by a user with access
\* while the session holds the content, and the question is asked again
RegenerateTurn ==
    /\ user_state = BotStates.POST_GENERATED
    /\ current_content
    /\ last_turn'.op = "regenerate_post"
    /\ last_turn'.outcome = "question_asked"

\* C28: from waiting_post_answer an answer stores post_generated only when
\* a non-empty post was received and saved; when the engine reports a
\* failure, returns an empty text or does not answer, the stored state
\* stays waiting_post_answer; from post_generated the regenerate button
\* stores waiting_post_answer.
C28_PostAnswerEdges ==
    [][/\ PostAnswerTurn
            => /\ user_state' \in {BotStates.POST_GENERATED,
                                   BotStates.WAITING_POST_ANSWER}
               /\ user_state' = BotStates.POST_GENERATED
                    => last_turn'.engine = "content" /\ last_turn'.saved
               /\ last_turn'.engine # "content"
                    => user_state' = BotStates.WAITING_POST_ANSWER
       /\ RegenerateTurn => user_state' = BotStates.WAITING_POST_ANSWER]_vars

\* witness of C28: an answer was turned into a post and the state
\* post_generated was stored
C28_Witness ==
    /\ last_turn.op = "text"
    /\ last_turn.outcome = "generated"
    /\ last_turn.engine = "content"
    /\ user_state = BotStates.POST_GENERATED

\* ==== retry_async_operation (src/utils.py) ====
\* what one call of the operation comes to: a returned value or a raised
\* exception
ReturnValues == {"value"}
Exceptions == {"e1", "e2"}
OperationOutcomes == ReturnValues \cup Exceptions

\* the arguments of a call: max_retries up to the default, two first delays
RetryCalls == [max_retries : 0..MAX_RETRIES, delay : {RETRY_DELAY, 3}]

\* the call at its first statement
RetryStart(args) ==
    [pc |-> "loop", max_retries |-> args.max_retries, delay_arg |-> args.delay,
     attempt |-> 0, delay |-> args.delay, last_exception |-> "None",
     outcomes |-> <<>>, slept |-> <<>>, result |-> "None"]

RetryInit ==
    /\ CallbackInit
    /\ BotInit
    /\ \E args \in RetryCalls : retry = RetryStart(args)
    /\ other_users = 0
    /\ wrapper = NoWrapper
    /\ limiter = NoLimiter

\* (mutant) a delay that is not doubled
next_delay_constant(delay) == delay

\* delay *= 2
next_delay(delay) == delay * 2

\* one pass of the loop body up to its next await: the operation is called;
\* its value is returned, or its exception is kept and either the sleep
\* begins or, on the last attempt, the loop ends and the exception is raised
retry_attempt(outcome) ==
    /\ retry.pc = "loop"
    /\ retry.attempt < retry.max_retries + 1
    /\ retry' =
         IF outcome \in ReturnValues
         THEN [retry EXCEPT !.pc = "returned", !.result = outcome,
                            !.outcomes = Append(@, outcome)]
         ELSE IF retry.attempt < retry.max_retries
         THEN [retry EXCEPT !.pc = "sleep", !.last_exception = outcome,
                            !.outcomes = Append(@, outcome)]
         ELSE [retry EXCEPT !.pc = "raised", !.last_exception = outcome,
                            !.result = outcome, !.attempt = @ + 1,
                            !.outcomes = Append(@, outcome)]
    /\ UNCHANGED <<callback_vars, bot_vars, other_users, wrapper, limiter>>

\* asyncio.sleep(delay) ends: the delay is doubled and the next pass begins
retry_sleep ==
    /\ retry.pc = "sleep"
    /\ retry' = [retry EXCEPT !.pc = "loop", !.slept = Append(@, retry.delay),
                              !.delay = next_delay(@), !.attempt = @ + 1]
    /\ UNCHANGED <<callback_vars, bot_vars, other_users, wrapper, limiter>>

RetryNext ==
    \/ \E outcome \in OperationOutcomes : retry_attempt(outcome)
    \/ retry_sleep

\* the event loop runs the call on: a call that can take a step takes it
RetrySpec == RetryInit /\ [][RetryNext]_vars /\ WF_vars(RetryNext)

\* the call is over
RetryOver == retry.pc \in {"returned", "raised"}

\* the calls of the operation made so far
RetryCallsMade == Len(retry.outcomes)

\* what holds of a call of retry_async_operation at every moment
RetryLaw ==
    /\ RetryCallsMade <= retry.max_retries + 1
    /\ \A k \in 1..RetryCallsMade :
          retry.outcomes[k] \in ReturnValues
              => /\ k = RetryCallsMade
                 /\ retry.pc = "returned"
                 /\ retry.result = retry.outcomes[k]
    /\ retry.pc = "returned" => retry.outcomes[RetryCallsMade] \in ReturnValues
    /\ retry.pc = "raised"
          => /\ RetryCallsMade = retry.max_retries + 1
             /\ retry.result = retry.outcomes[RetryCallsMade]
             /\ retry.result \in Exceptions
    /\ (RetryCallsMade = retry.max_retries + 1
          /\ retry.outcomes[RetryCallsMade] \in Exceptions) => retry.pc = "raised"
    /\ Len(retry.slept) <= retry.max_retries
    /\ \A k \in 1..Len(retry.slept) : retry.slept[k] = retry.delay_arg * 2^(k - 1)
    /\ retry.pc = "loop" => Len(retry.slept) = RetryCallsMade

\* C29: retry_async_operation calls the operation at most max_retries + 1
\* times, returns the value of the first call that succeeds and calls no
\* more, raises the last exception after max_retries + 1 failed calls,
\* sleeps delay * 2^(k-1) before retry k, and always ends.
C29_RetryBounded ==
    /\ []RetryLaw
    /\ [][RetryOver => retry' = retry]_vars
    /\ <>RetryOver

\* witness of C29: a call with the default max_retries has failed three
\* times, slept three times, and returned the value of its fourth call
C29_Witness ==
    /\ retry.pc = "returned"
    /\ retry.max_retries = MAX_RETRIES
    /\ RetryCallsMade = MAX_RETRIES + 1
    /\ Len(retry.slept) = MAX_RETRIES

\* ==== a callback that comes before the waiter's first poll ====
\* a well-formed callback for request r on a route, received while the
\* outbound POST of r is still under way
EarlyCallback(r, route, body) ==
    /\ req[r].pc = "posting"
    /\ body.json
    /\ body.rid = RidOf(r)
    /\ body.payload.t = "str"
    /\ handle_callback(route, body)

\* the first call of wait_for_callback on r, made with a result buffered
FirstPollWithResult(w, r) ==
    /\ req[r].pc = "sent"
    /\ HasResult(callback_handlers, r)
    /\ \E t \in Timeouts : wait_for_callback_begin(w, r, t)

\* C30: the entry of a new request is in the registry from before the
\* outbound POST and throughout it, so a callback that comes while
\* send_async_request has not returned finds the id live, is answered 200
\* and its payload is buffered; a result buffered before the waiter starts
\* stays buffered as long as the entry lives, and the waiter's first poll
\* returns it.
C30_EarlyCallbackDelivered ==
    /\ [](\A r \in Ids :
            /\ req[r].pc = "posting"
                 => r \in DOMAIN pending_requests /\ IsLive(RidOf(r), pending_requests)
            /\ (req[r].pc \in {"posting", "sent"} /\ accepted[r] # {}
                  /\ r \in DOMAIN pending_requests)
                 => HasResult(callback_handlers, r))
    /\ [][\A r \in Ids :
            /\ \A route \in Kinds, body \in Bodies :
                  EarlyCallback(r, route, body)
                      => /\ last_call'.status = 200
                         /\ HasResult(callback_handlers', r)
                         /\ callback_handlers'[r] =
                                ResultDict(FieldOf(route), Strip(body.payload.s), now)
            /\ \A w \in WaitIds :
                  FirstPollWithResult(w, r)
                      => /\ wait'[w].pc = "returned"
                         /\ wait'[w].result = callback_handlers[r]
                         /\ wait'[w].result.value \in accepted[r]]_vars

\* witness of C30: a callback has been answered 200 and its payload is
\* buffered while send_async_request has not yet returned
C30_Witness ==
    \E r \in Ids :
        /\ req[r].pc = "posting"
        /\ last_call.rid = RidOf(r)
        /\ last_call.status = 200
        /\ accepted[r] # {}
        /\ HasResult(callback_handlers, r)

\* ==== the waiter's own deadline ====
\* C31: every call of wait_for_callback returns in the end, a result or
\* None, whatever callbacks arrive or fail to arrive, as long as time
\* advances: a waiter that sleeps is later one that has returned.
C31_WaitReturns ==
    \A w \in WaitIds : (wait[w].pc = "sleep") ~> (wait[w].pc = "returned")

\* witness of C31: a call has returned None and the last callback the engine
\* sent was turned away with 400
C31_Witness ==
    \E w \in WaitIds :
        /\ wait[w].pc = "returned"
        /\ wait[w].result = ResultNone
        /\ last_call.status = 400
        /\ last_call.rid.t = "id"

\* ==== the post flow without the session's content ====
\* a press of write_post, of a goal button or of regenerate_post, or an
\* answer routed to handle_post_answer, while the session holds no
\* current_content
NoContentTurn ==
    /\ ~current_content
    /\ \/ last_turn'.op \in {"write_post", "goal", "regenerate_post"}
       \/ /\ last_turn'.op \in {"text", "voice"}
          /\ user_state = BotStates.WAITING_POST_ANSWER

\* C32: without current_content in the session, write_post, a goal button,
\* regenerate_post and a post answer leave the stored state as it was and
\* send nothing to the external engine; unless access is denied, the voice
\* is not transcribed or a Telegram call fails, the turn is the message that
\* the content was not found.
C32_NoContentNoEffect ==
    [][NoContentTurn
         => /\ user_state' = user_state
            /\ last_turn'.dispatches = 0
            /\ weekly_posts_count' = weekly_posts_count
            /\ last_turn'.outcome \notin {"denied", "failed", "no_transcription"}
                 => /\ last_turn'.outcome = "no_content"
                    /\ last_turn'.prompt = "content_not_found"]_vars

\* witness of C32: after the session was lost, an answer typed in
\* waiting_post_answer was met with the message that the content was not found
C32_Witness ==
    /\ user_state = BotStates.WAITING_POST_ANSWER
    /\ ~current_content
    /\ last_turn.op = "text"
    /\ last_turn.outcome = "no_content"
    /\ last_turn.prompt = "content_not_found"

\* ==== buffered results and pending entries ====
\* C33: callback_handlers holds results only for live requests: every key
\* of callback_handlers is a key of pending_requests.
C33_ResultsOnlyForLive ==
    DOMAIN callback_handlers \subseteq DOMAIN pending_requests

\* ==== the sweep and the waiters ====
\* the first call of wait_for_callback on its request, made as the callers
\* make it: with the default timeout and as soon as send_async_request has
\* returned, that is within the POST timeout of the entry's timestamp
PromptWaiter(w) ==
    /\ wait[w].pc = "sleep"
    /\ wait[w].timeout = DefaultTimeout
    /\ IsFirstWaitOn(w, wait[w].rid)
    /\ wait[w].rid \in DOMAIN pending_requests
    /\ wait[w].start - pending_requests[wait[w].rid].timestamp <= PostTimeout

\* a sweep leaves the entry and the buffered result of every such waiter
SweepSparesWaiters ==
    SweepStep
        => \A w \in WaitIds :
              PromptWaiter(w)
                  => /\ wait[w].rid \in DOMAIN pending_requests'
                     /\ EntryOf(callback_handlers', wait[w].rid)
                            = EntryOf(callback_handlers, wait[w].rid)

\* a waiter for whose request a callback was accepted returns that result
AcceptedIsDelivered ==
    \A w \in WaitIds :
        (PromptWaiter(w) /\ wait'[w].pc = "returned" /\ accepted[wait[w].rid] # {})
            => wait'[w].result.t = "dict"

\* C34: the sweep never removes the pending entry or the buffered result of
\* a request whose waiter, started by a caller with the 180 s timeout, has
\* not returned, and so a callback accepted within the waiter's deadline is
\* always delivered to it.
C34_SweepNeverRobsWaiter ==
    [][SweepSparesWaiters /\ AcceptedIsDelivered]_vars

\* ==== the weekly counter ====
\* C35: the weekly counter never exceeds the weekly limit; a call of
\* process_post_generation that succeeds has saved one post and incremented
\* the counter once, and a call that ends on a refused answer, on the limit,
\* or on an engine that could not be reached, did not answer, reported a
\* failure or returned an empty text leaves the counter as it read it.
C35_CounterWithinLimit ==
    /\ weekly_posts_count <= WEEKLY_POST_LIMIT
    /\ last_turn.op = "process_post_generation"
         => /\ last_turn.outcome = "generated"
                 => last_turn.inserted = 1 /\ last_turn.incremented = 1
            /\ ( \/ last_turn.prompt \in {"ERROR_ANSWER_TOO_SHORT", "WEEKLY_LIMIT_EXCEEDED"}
                 \/ last_turn.engine \in {"send_error", "timeout", "failed", "empty"} )
                 => last_turn.incremented = 0

\* ==== the limit of users ====
\* C38: the number of user records never exceeds MAX_USERS: once the users
\* table holds MAX_USERS rows, no /start and no text of a user without a
\* row creates a row for that user.
C38_NoRecordAtLimit ==
    [][(user_state = "none" /\ get_users_count >= MAX_USERS)
          => user_state' = "none"]_vars

(***************************************************************************)
(* subscription_required (src/bot.py): the decorator of handle_text_message, *)
(* handle_voice_message, handle_callback_query and profile_command.  One     *)
(* update passes through it at a time; every await of the wrapper is a step. *)
(***************************************************************************)

\* the handlers that carry @subscription_required
WrappedHandlers ==
    {"handle_text_message", "handle_voice_message", "handle_callback_query",
     "profile_command"}

\* how one run of a handler can end.  Each handler has a try/except around
\* its body; the except block of handle_text_message and of profile_command
\* awaits reply_text and that of handle_voice_message awaits the database and
\* the rollback, outside any try: an exception there leaves the handler.  The
\* except block of handle_callback_query catches everything again.
HandlerOutcomes(handler) ==
    IF handler = "handle_callback_query" THEN {"returned"} ELSE {"returned", "raised"}

\* send_access_denied_message: it asks check_user_access again and sends only
\* if access is still denied; every exception is caught inside it
DeniedMessages == {"sent", "send_failed", "access_now"}

\* wrapper is entered: update.effective_user.id is read inside the try; an
\* update without a user (a channel post) raises AttributeError there
subscription_required_begin(handler, has_user) ==
    /\ wrapper.pc \in {"idle", "done"}
    /\ wrapper.update_id < MaxUpdates
    /\ wrapper' = [pc |-> IF has_user THEN "check" ELSE "except",
                   update_id |-> wrapper.update_id + 1, handler |-> handler,
                   access |-> "none", denied_message |-> "none", runs |-> <<>>,
                   result |-> "none"]
    /\ UNCHANGED <<callback_vars, bot_vars, retry, other_users, limiter>>

\* await check_user_access (it never raises: its own except answers
\* has_access False); when denied, await send_access_denied_message and return
subscription_required_check(has_access, message) ==
    /\ wrapper.pc = "check"
    /\ wrapper' =
         IF has_access
         THEN [wrapper EXCEPT !.pc = "call", !.access = "granted"]
         ELSE [wrapper EXCEPT !.pc = "done", !.access = "denied",
                              !.denied_message = message, !.result = "returned"]
    /\ UNCHANGED <<callback_vars, bot_vars, retry, other_users, limiter>>

\* return await func(self, update, context), inside the try
subscription_required_call(outcome) ==
    /\ wrapper.pc = "call"
    /\ outcome \in HandlerOutcomes(wrapper.handler)
    /\ wrapper' =
         [wrapper EXCEPT !.runs = Append(@, outcome),
                         !.pc = IF outcome = "raised" THEN "except" ELSE "done",
                         !.result = IF outcome = "raised" THEN @ ELSE "returned"]
    /\ UNCHANGED <<callback_vars, bot_vars, retry, other_users, limiter>>

\* except Exception: the error is logged and func is awaited (again); what it
\* raises now leaves the wrapper
subscription_required_except(outcome) ==
    /\ wrapper.pc = "except"
    /\ outcome \in HandlerOutcomes(wrapper.handler)
    /\ wrapper' = [wrapper EXCEPT !.runs = Append(@, outcome), !.pc = "done",
                                  !.result = outcome]
    /\ UNCHANGED <<callback_vars, bot_vars, retry, other_users, limiter>>

WrapperNext ==
    \/ \E handler \in WrappedHandlers, has_user \in BOOLEAN :
         subscription_required_begin(handler, has_user)
    \/ \E has_access \in BOOLEAN, message \in DeniedMessages :
         subscription_required_check(has_access, message)
    \/ \E outcome \in {"returned", "raised"} : subscription_required_call(outcome)
    \/ \E outcome \in {"returned", "raised"} : subscription_required_except(outcome)

WrapperSpec == Init /\ [][WrapperNext]_vars

\* C37: the wrapped handler runs at most once for an update, and not at all
\* for an update whose access check denied access.
C37_HandlerAtMostOnce ==
    /\ Len(wrapper.runs) <= 1
    /\ wrapper.access = "denied" => wrapper.runs = <<>>

(***************************************************************************)
(* RateLimiter (src/error_handler.py).  is_allowed has no await inside: a   *)
(* call is one step.  Time is the clock of the event loop; a recorded call   *)
(* is kept as its age, which LimiterTick advances.                           *)
(***************************************************************************)

\* the test of the list comprehension: current_time - call_time < time_window,
\* written with the inclusive comparison
IsRecentInclusive(age) == age <= time_window

\* the test of the list comprehension: current_time - call_time < time_window
IsRecent(age) == age < time_window

\* ages above time_window behave alike: they are kept as time_window + 1
Older(ages) == [i \in DOMAIN ages |-> IF ages[i] > time_window THEN ages[i] ELSE ages[i] + 1]

\* is_allowed(user_id): the list of the user is created if absent, pruned to
\* the recent calls, and the call is appended unless max_calls remain
is_allowed(user_id) ==
    LET calls == IF user_id \in DOMAIN limiter.calls THEN limiter.calls[user_id] ELSE <<>>
        kept == SelectSeq(calls, IsRecent)
        allowed == ~(Len(kept) >= max_calls)
    IN  /\ limiter' =
             [calls |-> [u \in DOMAIN limiter.calls \cup {user_id} |->
                           IF u = user_id
                           THEN IF allowed THEN Append(kept, 0) ELSE kept
                           ELSE limiter.calls[u]],
              admitted |-> [limiter.admitted EXCEPT
                              ![user_id] = IF allowed THEN Append(@, 0) ELSE @],
              last |-> [user_id |-> user_id, allowed |-> allowed]]
        /\ UNCHANGED <<callback_vars, bot_vars, retry, other_users, wrapper>>

\* the clock of the event loop advances by one unit; the lists are not
\* touched (a list is pruned only by the next call of its user).  The history
\* forgets the admitted calls that have left every window still to come
LimiterTick ==
    /\ limiter' =
         [calls |-> [u \in DOMAIN limiter.calls |-> Older(limiter.calls[u])],
          admitted |-> [u \in LimiterUsers |->
                          SelectSeq(Older(limiter.admitted[u]),
                                    LAMBDA age : age < time_window)],
          last |-> NoAnswer]
    /\ UNCHANGED <<callback_vars, bot_vars, retry, other_users, wrapper>>

LimiterNext ==
    \/ \E user_id \in LimiterUsers : is_allowed(user_id)
    \/ LimiterTick

LimiterSpec == Init /\ [][LimiterNext]_vars

\* the admitted calls of a user that are younger than time_window
AdmittedInWindow(lim, user_id) ==
    Cardinality({i \in DOMAIN lim.admitted[user_id] :
                   lim.admitted[user_id][i] < time_window})

\* the recorded calls of a user
Recorded(lim, user_id) ==
    IF user_id \in DOMAIN lim.calls THEN lim.calls[user_id] ELSE <<>>

\* the calls recorded for a user at this instant
RecordedNow(lim, user_id) ==
    Cardinality({i \in DOMAIN Recorded(lim, user_id) : Recorded(lim, user_id)[i] = 0})

\* one call of is_allowed has been answered in this step
Answered == limiter' # limiter /\ limiter'.last.user_id # 0

\* the answer is False exactly when max_calls admitted calls of the caller are
\* younger than time_window; a rejected call is not recorded; the lists and
\* the history of the other users are left alone
AnswerLaw ==
    Answered =>
      LET user_id == limiter'.last.user_id IN
      /\ limiter'.last.allowed = (AdmittedInWindow(limiter, user_id) < max_calls)
      /\ limiter'.last.allowed =>
           /\ RecordedNow(limiter', user_id) = RecordedNow(limiter, user_id) + 1
           /\ limiter'.admitted[user_id] = Append(limiter.admitted[user_id], 0)
      /\ ~limiter'.last.allowed =>
           /\ Len(Recorded(limiter', user_id)) <= Len(Recorded(limiter, user_id))
           /\ RecordedNow(limiter', user_id) = RecordedNow(limiter, user_id)
           /\ limiter'.admitted[user_id] = limiter.admitted[user_id]
      /\ \A other \in LimiterUsers \ {user_id} :
           /\ Recorded(limiter', other) = Recorded(limiter, other)
           /\ limiter'.admitted[other] = limiter.admitted[other]

\* C39: in every window of length time_window is_allowed admits at most
\* max_calls calls of a user; a call is rejected exactly when max_calls
\* admitted calls of that user are younger than time_window; a rejected call
\* is not recorded; a call of one user changes nothing for another user.
C39_SlidingWindow ==
    /\ [](\A user_id \in LimiterUsers : AdmittedInWindow(limiter, user_id) <= max_calls)
    /\ [][AnswerLaw]_vars

\* a user is rejected with max_calls admitted calls in the window, some of
\* them older than the instant of the call, while another user has been
\* admitted in the same window
C39_Witness ==
    /\ limiter.last.user_id # 0
    /\ ~limiter.last.allowed
    /\ AdmittedInWindow(limiter, limiter.last.user_id) = max_calls
    /\ \E i \in DOMAIN limiter.admitted[limiter.last.user_id] :
         limiter.admitted[limiter.last.user_id][i] > 0
    /\ \E other \in LimiterUsers \ {limiter.last.user_id} :
         AdmittedInWindow(limiter, other) > 0

\* the stored states that come after the confirmation of a niche
NicheStates == {"registered", "waiting_post_goal", "waiting_post_answer", "post_generated"}

\* C36: in every reachable state a user whose stored state is registered,
\* waiting_post_goal, waiting_post_answer or post_generated has a stored
\* niche, and no step clears a stored niche.
C36_NicheBehindStates ==
    /\ [](user_state \in NicheStates => user_niche \in Niches)
    /\ [][user_niche # "none" => user_niche' # "none"]_vars

\* a step of the post flow failed and left the user, with the niche, in
\* waiting_post_answer
C36_Witness ==
    /\ user_state = "waiting_post_answer"
    /\ user_niche \in Niches
    /\ last_turn.outcome \in {"failed", "not_generated"}
====
